---- MODULE Spec2Model ----
(***************************************************************************)
(* A model of the better-diagrams core: the Diagram object table and       *)
(* relation list (src/src/model.mjs), the resolution pass                  *)
(* (src/src/passes.mjs), the build entry points of the parsers, the        *)
(* View / planRender selection (src/src/rendering.mjs) and the @assoc      *)
(* micro-grammar of the association pass.                                  *)
(*                                                                         *)
(* JavaScript strings are modelled as sequences of one-character strings,  *)
(* so that charAt, indexOf, includes and startsWith are computed as the    *)
(* code computes them.  Objects have an identity (id); relation endpoints  *)
(* are references carrying the class, the identity and the (immutable)     *)
(* name of the object they point to.                                       *)
(***************************************************************************)
EXTENDS Integers, Sequences, FiniteSets, TLC

VARIABLES
  objects,    \* Diagram.objects: the Map name -> object, as its entry list
  relations,  \* Diagram.relations: the ordered relation list
  warnings,   \* what console.warn has printed, in order
  nextId,     \* the identity the next `new` object gets
  fuseCount,  \* how many times Diagram.fuse has been called
  lastOp,     \* the last operation called and how it ended
  pc,         \* position of the running build entry point ("api": none)
  build,      \* the running build: entry point, files left, passes run
  view,       \* the View under construction
  plan,       \* the result of the last planRender()
  tree        \* the result of the last buildPackageTree()

vars ==
  <<objects, relations, warnings, nextId, fuseCount, lastOp, pc, build, view,
    plan, tree>>

----------------------------------------------------------------------------
(* Bounds of the model *)

MaxRelations == 1
MaxFuses == 1
MaxTokens == 2
MaxAttributes == 2
MaxViewRelations == 2
MaxTreeObjects == 3
MaxTypeDepth == 2
MaxFiles == 2
MaxDeclarations == 2

----------------------------------------------------------------------------
(* Strings *)

Undefined == <<"undefined">>

NameA == <<"A">>
NameB == <<"B">>
NameX == <<"X">>

----------------------------------------------------------------------------
(* Map: an insertion-ordered list of entries [key, value] *)

MapHas(m, k) == \E i \in 1..Len(m) : m[i].key = k

MapIndex(m, k) == CHOOSE i \in 1..Len(m) : m[i].key = k

MapGet(m, k) == IF MapHas(m, k) THEN m[MapIndex(m, k)].value ELSE Undefined

MapSet(m, k, v) ==
  IF MapHas(m, k)
    THEN [m EXCEPT ![MapIndex(m, k)] = [key |-> k, value |-> v]]
    ELSE Append(m, [key |-> k, value |-> v])

----------------------------------------------------------------------------
(* Objects, src/src/model.mjs *)

DiagramObject(cls, id, name) ==
  [cls |-> cls, id |-> id, name |-> name, package |-> <<>>, doc |-> <<>>]

ClassObject(id, name) ==
  DiagramObject("ClassObject", id, name) @@
  [attributes |-> <<>>, constructors |-> <<>>, methods |-> <<>>]

EnumObject(id, name) ==
  [ClassObject(id, name) EXCEPT !.cls = "EnumObject"] @@ [constants |-> <<>>]

InterfaceObject(id, name) ==
  DiagramObject("InterfaceObject", id, name) @@ [methods |-> <<>>]

UnresolvedObject(id, name) == DiagramObject("UnresolvedObject", id, name)

IsClassObject(o) == o.cls \in {"ClassObject", "EnumObject"}

(* A reference to an object, as a relation endpoint or a view root holds it *)
Ref(o) == [cls |-> o.cls, id |-> o.id, name |-> o.name]

(* A JavaScript string held where an object is expected *)
StringValue(s) == [cls |-> "String", str |-> s]

IsUnresolved(v) == v.cls = "UnresolvedObject"

(* v.name: undefined for a string *)
NameOf(v) == IF v.cls = "String" THEN Undefined ELSE v.name

----------------------------------------------------------------------------
(* Relations *)

Relation(kind, a, b) == [kind |-> kind, a |-> a, b |-> b, visual |-> {}]

AssociativeRelation(a, b) ==
  Relation("Associative", a, b) @@
  [name |-> <<>>, roleA |-> <<>>, roleB |-> <<>>, headA |-> <<>>,
   headB |-> <<">">>, multiplicityA |-> <<>>, multiplicityB |-> <<>>]

----------------------------------------------------------------------------
(* Diagram *)

hasObject(objs, name) == MapHas(objs, name)

getObject(objs, name) == MapGet(objs, name)

DuplicateError == "Multiple objects with the same name"

addObjectNoCheck(objs, object) ==
  [objects |-> MapSet(objs, object.name, object), threw |-> ""]

addObject(objs, object) ==
  IF MapHas(objs, object.name)
    THEN [objects |-> objs, threw |-> DuplicateError]
    ELSE [objects |-> MapSet(objs, object.name, object), threw |-> ""]

(* the relation put in front of the list *)
addRelationInFront(rels, relation) == <<relation>> \o rels

addRelation(rels, relation) == Append(rels, relation)

(* other.attributes etc. spread into this object's list; spreading a field *)
(* the other object does not have throws a TypeError                      *)
TypeError == "TypeError"

SpreadInto(r, other, field) ==
  IF r.threw # "" THEN r
  ELSE IF field \in DOMAIN other
    THEN [object |-> [r.object EXCEPT ![field] = @ \o other[field]], threw |-> ""]
    ELSE [object |-> r.object, threw |-> TypeError]

ClassObjectFuse(this, other) ==
  SpreadInto(SpreadInto(SpreadInto([object |-> this, threw |-> ""],
    other, "attributes"), other, "constructors"), other, "methods")

EnumObjectFuse(this, other) ==
  SpreadInto(ClassObjectFuse(this, other), other, "constants")

(* [...this.methods, other.methods]: the other list becomes ONE element *)
InterfaceObjectFuse(this, other) ==
  [object |-> [this EXCEPT !.methods =
                 Append(@, [array |-> IF "methods" \in DOMAIN other
                                        THEN other.methods ELSE Undefined])],
   threw |-> ""]

ObjectFuse(this, other) ==
  CASE this.cls = "ClassObject" -> ClassObjectFuse(this, other)
    [] this.cls = "EnumObject" -> EnumObjectFuse(this, other)
    [] this.cls = "InterfaceObject" -> InterfaceObjectFuse(this, other)
    [] OTHER -> [object |-> this, threw |-> ""]

RECURSIVE FuseObjects(_, _, _)
FuseObjects(objs, entries, i) ==
  IF i > Len(entries) THEN [objects |-> objs, threw |-> ""]
  ELSE LET name == entries[i].key
           object == entries[i].value
       IN IF hasObject(objs, name)
            THEN LET r == ObjectFuse(getObject(objs, name), object)
                     objs2 == MapSet(objs, name, r.object)
                 IN IF r.threw # "" THEN [objects |-> objs2, threw |-> r.threw]
                    ELSE FuseObjects(objs2, entries, i + 1)
            ELSE LET r == addObject(objs, object)
                 IN IF r.threw # "" THEN r
                    ELSE FuseObjects(r.objects, entries, i + 1)

RECURSIVE AddRelations(_, _, _)
AddRelations(rels, others, i) ==
  IF i > Len(others) THEN rels
  ELSE AddRelations(addRelation(rels, others[i]), others, i + 1)

DiagramFuse(objs, rels, other) ==
  LET r == FuseObjects(objs, other.objects, 1)
  IN IF r.threw # ""
       THEN [objects |-> r.objects, relations |-> rels, threw |-> r.threw]
       ELSE [objects |-> r.objects,
             relations |-> AddRelations(rels, other.relations, 1),
             threw |-> ""]

----------------------------------------------------------------------------
(* Resolution pass, src/src/passes.mjs and Relation.resolve *)

(* the earlier callback: name => ... new UnresolvedObject(name) *)
lookupByName(objs, name, st) ==
  IF ~hasObject(objs, name.str)
    THEN [ret |-> Ref(UnresolvedObject(st.nextId, name.str)),
          warnings |-> Append(st.warnings, name.str),
          nextId |-> st.nextId + 1]
    ELSE [ret |-> Ref(getObject(objs, name.str)),
          warnings |-> st.warnings, nextId |-> st.nextId]

(* the callback of resolveObjects: object => ... object.name ... *)
lookup(objs, object, st) ==
  IF ~hasObject(objs, NameOf(object))
    THEN [ret |-> object,
          warnings |-> Append(st.warnings, NameOf(object)),
          nextId |-> st.nextId]
    ELSE [ret |-> Ref(getObject(objs, NameOf(object))),
          warnings |-> st.warnings, nextId |-> st.nextId]

(* Relation.resolve without the instanceof tests: every endpoint is looked up *)
RelationResolveEvery(objs, rel, st) ==
  LET ra == lookup(objs, StringValue(rel.a.name), st)
      rb == lookup(objs, StringValue(rel.b.name),
                   [warnings |-> ra.warnings, nextId |-> ra.nextId])
  IN [relation |-> [rel EXCEPT !.a = ra.ret, !.b = rb.ret],
      warnings |-> rb.warnings, nextId |-> rb.nextId]

(* Relation.resolve(lookup): the callback is handed this.a.name, a string *)
RelationResolve(objs, rel, st) ==
  LET ra == IF IsUnresolved(rel.a)
              THEN lookup(objs, StringValue(rel.a.name), st)
              ELSE [ret |-> rel.a, warnings |-> st.warnings, nextId |-> st.nextId]
      sa == [warnings |-> ra.warnings, nextId |-> ra.nextId]
      rb == IF IsUnresolved(rel.b)
              THEN lookup(objs, StringValue(rel.b.name), sa)
              ELSE [ret |-> rel.b, warnings |-> sa.warnings, nextId |-> sa.nextId]
  IN [relation |-> [rel EXCEPT !.a = ra.ret, !.b = rb.ret],
      warnings |-> rb.warnings, nextId |-> rb.nextId]

RECURSIVE ResolveFrom(_, _, _, _)
ResolveFrom(objs, rels, i, st) ==
  IF i > Len(rels)
    THEN [relations |-> rels, warnings |-> st.warnings, nextId |-> st.nextId]
    ELSE LET r == RelationResolve(objs, rels[i], st)
         IN ResolveFrom(objs, [rels EXCEPT ![i] = r.relation], i + 1,
                        [warnings |-> r.warnings, nextId |-> r.nextId])

resolveObjects(objs, rels, st) == ResolveFrom(objs, rels, 1, st)

----------------------------------------------------------------------------
(* JavaScript string operations on character sequences *)

RECURSIVE IndexFrom(_, _, _)
IndexFrom(s, c, i) ==
  IF i > Len(s) THEN -1
  ELSE IF s[i] = c THEN i - 1
  ELSE IndexFrom(s, c, i + 1)

(* s.indexOf(c): zero-based, -1 when absent *)
IndexOf(s, c) == IndexFrom(s, c, 1)

Includes(s, c) == IndexOf(s, c) >= 0

(* s.charAt(i): the empty string outside the string *)
CharAt(s, i) == IF i >= 0 /\ i < Len(s) THEN <<s[i + 1]>> ELSE <<>>

StartsWith(s, c) == Len(s) >= 1 /\ s[1] = c

(* s.substr(from) *)
Substr(s, from) == SubSeq(s, from + 1, Len(s))

(* s.split(delimiters): the pieces between delimiter characters, empty *)
(* pieces included                                                     *)
RECURSIVE SplitFrom(_, _, _, _)
SplitFrom(s, delims, i, piece) ==
  IF i > Len(s) THEN <<piece>>
  ELSE IF s[i] \in delims
    THEN <<piece>> \o SplitFrom(s, delims, i + 1, <<>>)
    ELSE SplitFrom(s, delims, i + 1, Append(piece, s[i]))

Split(s, delims) == SplitFrom(s, delims, 1, <<>>)

(* String.prototype.splitOne, src/unnamed/part_003 *)
splitOne(s, delim) ==
  LET index == IndexOf(s, delim)
  IN IF index = -1 THEN <<s>>
     ELSE <<SubSeq(s, 1, index), Substr(s, index + 1)>>

RECURSIVE JoinFrom(_, _, _)
JoinFrom(parts, sep, i) ==
  IF i > Len(parts) THEN <<>>
  ELSE IF i = Len(parts) THEN parts[i]
  ELSE parts[i] \o sep \o JoinFrom(parts, sep, i + 1)

(* parts.join(sep) *)
Join(parts, sep) == JoinFrom(parts, sep, 1)

(* the list as it is, repeated elements kept *)
SetOfKeepingRepeats(list, i, acc) == list

(* new Set(list): insertion order, first occurrence kept *)
RECURSIVE SetOf(_, _, _)
SetOf(list, i, acc) ==
  IF i > Len(list) THEN acc
  ELSE IF \E j \in 1..Len(acc) : acc[j] = list[i]
    THEN SetOf(list, i + 1, acc)
    ELSE SetOf(list, i + 1, Append(acc, list[i]))

RECURSIVE NonEmpty(_, _)
NonEmpty(list, i) ==
  IF i > Len(list) THEN <<>>
  ELSE IF list[i] # <<>> THEN <<list[i]>> \o NonEmpty(list, i + 1)
  ELSE NonEmpty(list, i + 1)

----------------------------------------------------------------------------
(* Types, src/unnamed/part_000 *)

NamedType(name) == [type |-> "NamedType", name |-> name]

PrimitiveType(name) == [type |-> "PrimitiveType", name |-> name]

VoidType == [type |-> "VoidType"]

ListType(item) == [type |-> "ListType", item |-> item]

SetType(item) == [type |-> "SetType", item |-> item]

OptionalType(item) == [type |-> "OptionalType", item |-> item]

SourceType(source) == [type |-> "SourceType", source |-> source]

SourceDelimiters == {">", "<", "(", ")", "[", "]", "{", "}", ",", "|", "."}

(* PrimitiveType without its own collectNames: NamedType's is inherited *)
RECURSIVE collectNamesInherited(_)
collectNamesInherited(type) ==
  CASE type.type \in {"NamedType", "PrimitiveType"} -> <<type.name>>
    [] type.type \in {"ListType", "SetType", "OptionalType"} ->
         collectNamesInherited(type.item)
    [] type.type = "SourceType" ->
         SetOf(NonEmpty(Split(type.source, SourceDelimiters), 1), 1, <<>>)
    [] OTHER -> <<>>

RECURSIVE collectNames(_)
collectNames(type) ==
  CASE type.type = "NamedType" -> <<type.name>>
    [] type.type \in {"ListType", "SetType", "OptionalType"} ->
         collectNames(type.item)
    [] type.type = "SourceType" ->
         SetOf(NonEmpty(Split(type.source, SourceDelimiters), 1), 1, <<>>)
    [] OTHER -> <<>>

----------------------------------------------------------------------------
(* Members and doc comments *)

Attribute(name, type) == [name |-> name, type |-> type, doc |-> <<>>]

Method(name) == [name |-> name, doc |-> <<>>]

AtAssoc == <<"@", "a", "s", "s", "o", "c">>
AtNoAssoc == <<"@", "n", "o", "a", "s", "s", "o", "c">>

(* DocComment.findAttribute: the first tag of that name, or null *)
HasAttribute(doc, name) == \E i \in 1..Len(doc) : doc[i].name = name

findAttribute(doc, name) ==
  doc[CHOOSE i \in 1..Len(doc) :
        doc[i].name = name /\ \A j \in 1..(i - 1) : doc[j].name # name]

(* parseDocComment on one tag line "@name rest": @assoc keeps the words of *)
(* the rest as params, any other tag keeps the rest as its value           *)
DocAttribute(line) ==
  LET parts == splitOne(line, " ")
      name == parts[1]
      rest == IF Len(parts) > 1 THEN parts[2] ELSE Undefined
  IN IF name = AtAssoc
       THEN [name |-> name, params |-> Split(rest, {" "}), value |-> <<>>]
       ELSE [name |-> name, params |-> <<>>, value |-> rest]

----------------------------------------------------------------------------
(* Association inference pass, src/src/passes.mjs *)

UndefinedValue == [cls |-> "Undefined"]

(* a placeholder instead of undefined for a name the table lacks *)
getObjectRefOrPlaceholder(objs, name) ==
  IF hasObject(objs, name) THEN Ref(getObject(objs, name))
  ELSE Ref(UnresolvedObject(0, name))

(* diagram.getObject(name) as a relation endpoint: undefined when absent *)
getObjectRef(objs, name) ==
  IF hasObject(objs, name) THEN Ref(getObject(objs, name)) ELSE UndefinedValue

Digits == {"0", "1", "2", "3", "4", "5", "6", "7", "8", "9"}

(* (\*|[0-9]+) *)
IsMultiplicityBound(s) ==
  s = <<"*">> \/ (Len(s) >= 1 /\ \A i \in 1..Len(s) : s[i] \in Digits)

(* MULTIPLICITY.test(param): ^(\*|[0-9]+)(\.\.(\*|[0-9]+))?$ *)
MULTIPLICITY(s) ==
  \/ IsMultiplicityBound(s)
  \/ \E k \in 1..(Len(s) - 1) :
       /\ s[k] = "." /\ s[k + 1] = "."
       /\ IsMultiplicityBound(SubSeq(s, 1, k - 1))
       /\ IsMultiplicityBound(SubSeq(s, k + 2, Len(s)))

(* the dash branch with the two heads exchanged *)
ParseDashSwapped(st, param) ==
  LET index == IndexOf(param, "-")
  IN [relation |-> [st.relation EXCEPT !.headA = CharAt(param, index + 1),
                                       !.headB = CharAt(param, index - 1)],
      isStart |-> FALSE]

(* the branch of a param that includes "-" *)
ParseDash(st, param) ==
  LET index == IndexOf(param, "-")
  IN [relation |-> [st.relation EXCEPT !.headA = CharAt(param, index - 1),
                                       !.headB = CharAt(param, index + 1)],
      isStart |-> FALSE]

(* the loop body before visual flags were added: no "$" branch *)
ParseParamNoVisual(st, param) ==
  LET relation == st.relation
  IN IF Includes(param, "-")
       THEN ParseDash(st, param)
     ELSE IF MULTIPLICITY(param)
       THEN IF st.isStart
              THEN [st EXCEPT !.relation.multiplicityA = param]
              ELSE [st EXCEPT !.relation.multiplicityB = param]
     ELSE IF st.isStart
       THEN IF relation.roleA = <<>>
              THEN [st EXCEPT !.relation.roleA = param]
              ELSE [st EXCEPT !.relation.name = param]
     ELSE [st EXCEPT !.relation.roleB = param]

(* the branch of a param matching MULTIPLICITY *)
ParseMultiplicity(st, param) ==
  IF st.isStart
    THEN [st EXCEPT !.relation.multiplicityA = param]
    ELSE [st EXCEPT !.relation.multiplicityB = param]

(* the A side filling the name before the role *)
ParseWordNameFirst(st, param) ==
  IF st.isStart
    THEN IF st.relation.name = <<>>
           THEN [st EXCEPT !.relation.name = param]
           ELSE [st EXCEPT !.relation.roleA = param]
    ELSE [st EXCEPT !.relation.roleB = param]

(* the branch of any other param *)
ParseWord(st, param) ==
  IF st.isStart
    THEN IF st.relation.roleA = <<>>
           THEN [st EXCEPT !.relation.roleA = param]
           ELSE [st EXCEPT !.relation.name = param]
    ELSE [st EXCEPT !.relation.roleB = param]

(* the loop body with the dash tested before the "$" *)
ParseParamDashFirst(st, param) ==
  IF Includes(param, "-")
    THEN ParseDash(st, param)
  ELSE IF StartsWith(param, "$")
    THEN [st EXCEPT !.relation.visual = @ \cup {Substr(param, 1)}]
  ELSE IF MULTIPLICITY(param)
    THEN ParseMultiplicity(st, param)
  ELSE ParseWord(st, param)

(* one iteration of the loop of parseAssociation *)
ParseParam(st, param) ==
  IF StartsWith(param, "$")
    THEN [st EXCEPT !.relation.visual = @ \cup {Substr(param, 1)}]
  ELSE IF Includes(param, "-")
    THEN ParseDash(st, param)
  ELSE IF MULTIPLICITY(param)
    THEN ParseMultiplicity(st, param)
  ELSE ParseWord(st, param)

RECURSIVE ParseParams(_, _, _)
ParseParams(st, params, it) ==
  IF it > Len(params) - 1 THEN st
  ELSE ParseParams(ParseParam(st, params[it]), params, it + 1)

parseAssociation(object, objs, attr) ==
  ParseParams(
    [relation |-> AssociativeRelation(Ref(object),
                    getObjectRef(objs, attr.params[Len(attr.params)])),
     isStart |-> TRUE],
    attr.params, 1).relation

DEFAULT_INFER_ASSOCIATIONS_CONFIG == [merge |-> FALSE, maxRoles |-> -1]

(* the roles of one attribute recorded against the objects its type names *)
RECURSIVE RecordRoles(_, _, _, _, _)
RecordRoles(inferred, objs, refs, i, attribute) ==
  IF i > Len(refs) THEN inferred
  ELSE IF hasObject(objs, refs[i])
    THEN LET refObject == Ref(getObject(objs, refs[i]))
             roles == IF MapHas(inferred, refObject)
                        THEN MapGet(inferred, refObject) ELSE <<>>
         IN RecordRoles(MapSet(inferred, refObject, Append(roles, attribute.name)),
                        objs, refs, i + 1, attribute)
    ELSE RecordRoles(inferred, objs, refs, i + 1, attribute)

(* the loop over object.attributes with the tags of the attributes ignored *)
RECURSIVE ScanAttributesIgnoringTags(_, _, _, _, _)
ScanAttributesIgnoringTags(st, objs, object, attributes, i) ==
  IF i > Len(attributes) THEN st
  ELSE ScanAttributesIgnoringTags(
         [st EXCEPT !.inferred =
            RecordRoles(@, objs, collectNames(attributes[i].type), 1,
                        attributes[i])],
         objs, object, attributes, i + 1)

(* the loop over object.attributes *)
RECURSIVE ScanAttributes(_, _, _, _, _)
ScanAttributes(st, objs, object, attributes, i) ==
  IF i > Len(attributes) THEN st
  ELSE LET attribute == attributes[i]
       IN IF HasAttribute(attribute.doc, AtAssoc)
            THEN ScanAttributes(
                   [st EXCEPT !.relations =
                      addRelation(@, parseAssociation(object, objs,
                                       findAttribute(attribute.doc, AtAssoc)))],
                   objs, object, attributes, i + 1)
          ELSE IF ~HasAttribute(attribute.doc, AtNoAssoc)
            THEN ScanAttributes(
                   [st EXCEPT !.inferred =
                      RecordRoles(@, objs, collectNames(attribute.type), 1,
                                  attribute)],
                   objs, object, attributes, i + 1)
          ELSE ScanAttributes(st, objs, object, attributes, i + 1)

(* the role put on the A side *)
RoleRelationOnA(object, refObject, role) ==
  [AssociativeRelation(Ref(object), refObject) EXCEPT !.roleA = role]

(* the relation emitted for one role when merge is off *)
RoleRelation(object, refObject, role) ==
  [AssociativeRelation(Ref(object), refObject) EXCEPT !.roleB = role]

RECURSIVE EmitRoles(_, _, _, _, _)
EmitRoles(rels, object, refObject, roles, i) ==
  IF i > Len(roles) THEN rels
  ELSE EmitRoles(addRelation(rels, RoleRelation(object, refObject, roles[i])),
                 object, refObject, roles, i + 1)

(* the label never suppressed *)
RoleLabelUnlimited(roles, config) == Join(roles, <<",", " ">>)

(* the B role of a merged relation: the roles joined, or left empty when *)
(* there are more than maxRoles                                          *)
RoleLabel(roles, config) ==
  IF config.maxRoles = -1 \/ Len(roles) <= config.maxRoles
    THEN Join(roles, <<",", " ">>)
    ELSE <<>>

(* the inferred map visited by ascending identity of the target instead *)
(* of in insertion order                                                *)
RECURSIVE EmitInferredByIdentity(_, _, _, _, _)
EmitInferredByIdentity(rels, object, inferred, i, config) ==
  IF Len(inferred) = 0 THEN rels
  ELSE LET m == CHOOSE k \in 1..Len(inferred) :
                  \A l \in 1..Len(inferred) : inferred[k].key.id <= inferred[l].key.id
           rest == SubSeq(inferred, 1, m - 1) \o SubSeq(inferred, m + 1, Len(inferred))
           emitted ==
             IF config.merge
               THEN addRelation(rels,
                      [AssociativeRelation(Ref(object), inferred[m].key)
                         EXCEPT !.roleB = RoleLabel(inferred[m].value, config)])
               ELSE EmitRoles(rels, object, inferred[m].key, inferred[m].value, 1)
       IN EmitInferredByIdentity(emitted, object, rest, i, config)

(* the loop over the inferred map *)
RECURSIVE EmitInferred(_, _, _, _, _)
EmitInferred(rels, object, inferred, i, config) ==
  IF i > Len(inferred) THEN rels
  ELSE LET refObject == inferred[i].key
           roles == inferred[i].value
       IN IF config.merge
            THEN LET relation == AssociativeRelation(Ref(object), refObject)
                     labelled == [relation EXCEPT !.roleB = RoleLabel(roles, config)]
                 IN EmitInferred(addRelation(rels, labelled), object, inferred,
                                 i + 1, config)
            ELSE EmitInferred(EmitRoles(rels, object, refObject, roles, 1),
                              object, inferred, i + 1, config)

(* the loop body with the @noassoc test ahead of the object's own @assoc *)
InferObjectNoassocFirst(rels, objs, object, config) ==
  IF HasAttribute(object.doc, AtNoAssoc) THEN rels
  ELSE LET rels1 == IF HasAttribute(object.doc, AtAssoc)
                      THEN addRelation(rels, parseAssociation(object, objs,
                                               findAttribute(object.doc, AtAssoc)))
                      ELSE rels
       IN IF IsClassObject(object)
            THEN LET st == ScanAttributes([relations |-> rels1, inferred |-> <<>>],
                                          objs, object, object.attributes, 1)
                 IN EmitInferred(st.relations, object, st.inferred, 1, config)
            ELSE rels1

(* the body of the loop over diagram.objects *)
InferObject(rels, objs, object, config) ==
  LET rels1 == IF HasAttribute(object.doc, AtAssoc)
                 THEN addRelation(rels, parseAssociation(object, objs,
                                          findAttribute(object.doc, AtAssoc)))
                 ELSE rels
  IN IF HasAttribute(object.doc, AtNoAssoc) THEN rels1
     ELSE IF IsClassObject(object)
       THEN LET st == ScanAttributes([relations |-> rels1, inferred |-> <<>>],
                                     objs, object, object.attributes, 1)
            IN EmitInferred(st.relations, object, st.inferred, 1, config)
     ELSE rels1

RECURSIVE InferFrom(_, _, _, _)
InferFrom(rels, objs, i, config) ==
  IF i > Len(objs) THEN rels
  ELSE InferFrom(InferObject(rels, objs, objs[i].value, config), objs, i + 1,
                 config)

inferAssociations(objs, rels, partialConfig) ==
  InferFrom(rels, objs, 1, partialConfig @@ DEFAULT_INFER_ASSOCIATIONS_CONFIG)

----------------------------------------------------------------------------
(* Package tree: PackageObject (src/src/model.mjs) and buildPackageTree    *)
(* (src/src/passes.mjs).  A tree is the map path -> entries of the package *)
(* node at that path (the root at <<>>); an entry holds an object or the   *)
(* package node one segment deeper.                                        *)

PackageObject(path, name) ==
  [cls |-> "PackageObject", path |-> path, name |-> name]

(* PackageObject.insert(path, object) on the node at `at` *)
RECURSIVE PackageInsert(_, _, _, _)
PackageInsert(nodes, at, path, object) ==
  IF Len(path) = 0
    THEN [nodes |-> [nodes EXCEPT ![at] = MapSet(@, object.name, Ref(object))],
          threw |-> ""]
    ELSE LET packageName == path[1]
             child == Append(at, packageName)
             nodes1 ==
               IF ~MapHas(nodes[at], packageName)
                 THEN (child :> <<>>) @@
                      [nodes EXCEPT ![at] =
                         MapSet(@, packageName, PackageObject(child, packageName))]
                 ELSE nodes
             next == MapGet(nodes1[at], packageName)
         IN IF next.cls = "PackageObject"
              THEN PackageInsert(nodes1, next.path, Tail(path), object)
              ELSE [nodes |-> nodes1, threw |-> TypeError]

(* PackageObject.get(path) on the node at `at`; calling get on undefined *)
(* or on an object that is not a package throws                         *)
RECURSIVE PackageGet(_, _, _)
PackageGet(nodes, at, path) ==
  LET object == IF Len(path) >= 1 /\ MapHas(nodes[at], path[1])
                  THEN MapGet(nodes[at], path[1]) ELSE UndefinedValue
  IN IF Len(path) = 1 THEN object
     ELSE IF object.cls = "PackageObject"
       THEN PackageGet(nodes, object.path, Tail(path))
       ELSE [cls |-> TypeError]

(* collectObjects(): {this} for an object, the leaves below a package *)
RECURSIVE collectObjects(_, _)
collectObjects(nodes, object) ==
  IF object.cls = "PackageObject"
    THEN UNION {collectObjects(nodes, nodes[object.path][i].value) :
                  i \in 1..Len(nodes[object.path])}
    ELSE {object}

(* commonPrefix is null until the first object has been seen *)
Null == [null |-> TRUE]

Array(path) == [null |-> FALSE, path |-> path]

(* the prefix taken from the first object alone *)
CommonPrefixOfFirst(objs, i, commonPrefix) ==
  IF Len(objs) = 0 THEN Null ELSE Array(objs[1].value.package)

RECURSIVE CommonPrefix(_, _, _)
CommonPrefix(objs, i, commonPrefix) ==
  IF i > Len(objs) THEN commonPrefix
  ELSE LET package == objs[i].value.package
       IN IF commonPrefix.null
            THEN CommonPrefix(objs, i + 1, Array(package))
            ELSE LET agree == {n \in 0..Len(commonPrefix.path) :
                                 /\ n <= Len(package)
                                 /\ \A k \in 1..n : package[k] = commonPrefix.path[k]}
                     commonCount == CHOOSE n \in agree : \A m \in agree : m <= n
                 IN CommonPrefix(objs, i + 1,
                                 Array(SubSeq(commonPrefix.path, 1, commonCount)))

RECURSIVE InsertAll(_, _, _, _)
InsertAll(nodes, objs, i, skip) ==
  IF i > Len(objs) THEN [nodes |-> nodes, threw |-> ""]
  ELSE LET object == objs[i].value
           r == PackageInsert(nodes, <<>>,
                              SubSeq(object.package, skip + 1, Len(object.package)),
                              object)
       IN IF r.threw # "" THEN r ELSE InsertAll(r.nodes, objs, i + 1, skip)

buildPackageTree(objs) ==
  LET commonPrefix == CommonPrefix(objs, 1, Null)
  IN IF commonPrefix.null
       THEN [exists |-> FALSE, threw |-> TypeError]
       ELSE LET r == InsertAll((<<>> :> <<>>), objs, 1, Len(commonPrefix.path))
            IN IF r.threw # ""
                 THEN [exists |-> FALSE, threw |-> r.threw]
                 ELSE [exists |-> TRUE, threw |-> "",
                       root |-> PackageObject(<<>>, Join(commonPrefix.path, <<".">>)),
                       nodes |-> r.nodes]

----------------------------------------------------------------------------
(* View, src/src/rendering.mjs *)

(* new View(objects, diagram) *)
NewView(id, roots) == [exists |-> TRUE, id |-> id, objects |-> roots,
                       showAdjacent |-> FALSE]

(* the flag flipped instead of set *)
withAdjacentToggle(v) == [v EXCEPT !.showAdjacent = ~@]

withAdjacent(v) == [v EXCEPT !.showAdjacent = TRUE]

Nodes(t) == IF t.exists THEN t.nodes ELSE (<<>> :> <<>>)

(* the union of collectObjects() over the roots *)
Rendered(v, t) == UNION {collectObjects(Nodes(t), o) : o \in v.objects}

(* either endpoint rendered *)
EitherRendered(relation, rendered) ==
  relation.a \in rendered \/ relation.b \in rendered

(* the first branch of the loop of planRender *)
BothRendered(relation, rendered) ==
  relation.a \in rendered /\ relation.b \in rendered

(* adjacency followed in both directions *)
AdjacentBothWays(relation, rendered, showAdjacent) ==
  showAdjacent /\ (relation.a \in rendered \/ relation.b \in rendered)

(* the second branch of the loop of planRender *)
AdjacentBranch(relation, rendered, showAdjacent) ==
  showAdjacent /\ relation.a \in rendered

(* the loop of planRender over diagram.relations; relations are kept by *)
(* their position in the diagram's list                                 *)
RECURSIVE PlanFrom(_, _, _, _, _)
PlanFrom(rels, i, rendered, showAdjacent, acc) ==
  IF i > Len(rels) THEN acc
  ELSE LET relation == rels[i]
       IN IF BothRendered(relation, rendered)
            THEN PlanFrom(rels, i + 1, rendered, showAdjacent,
                          [acc EXCEPT !.relations = Append(@, i)])
          ELSE IF AdjacentBranch(relation, rendered, showAdjacent)
            THEN PlanFrom(rels, i + 1, rendered, showAdjacent,
                          [acc EXCEPT !.relations = Append(@, i),
                                      !.adjacent = Append(@, relation.b)])
          ELSE PlanFrom(rels, i + 1, rendered, showAdjacent, acc)

(* a plan listing the collected leaves instead of the roots *)
planRenderCollected(v, t, rels) ==
  LET r == PlanFrom(rels, 1, Rendered(v, t), v.showAdjacent,
                    [adjacent |-> <<>>, relations |-> <<>>])
  IN [exists |-> TRUE, objects |-> Rendered(v, t), adjacent |-> r.adjacent,
      relations |-> r.relations]

planRender(v, t, rels) ==
  LET r == PlanFrom(rels, 1, Rendered(v, t), v.showAdjacent,
                    [adjacent |-> <<>>, relations |-> <<>>])
  IN [exists |-> TRUE, objects |-> v.objects, adjacent |-> r.adjacent,
      relations |-> r.relations]

----------------------------------------------------------------------------
(* The objects the parsers register, and the diagrams handed to fuse *)

NameC == <<"C">>

PoolA1 ==
  [ClassObject(1, NameA) EXCEPT
     !.attributes = <<Attribute(<<"x">>, NamedType(NameB))>>,
     !.methods = <<Method(<<"m">>)>>]

PoolA2 == ClassObject(2, NameA)

PoolB == [InterfaceObject(3, NameB) EXCEPT !.methods = <<Method(<<"f">>)>>]

ObjectPool == {PoolA1, PoolA2, PoolB}

OtherA ==
  [ClassObject(11, NameA) EXCEPT
     !.attributes = <<Attribute(<<"y">>, NamedType(NameC))>>]

OtherB == [InterfaceObject(12, NameB) EXCEPT !.methods = <<Method(<<"g">>)>>]

OtherC == EnumObject(13, NameC)

OtherAI == InterfaceObject(14, NameA)

Entry(o) == [key |-> o.name, value |-> o]

OtherDiagrams ==
  { [objects |-> <<Entry(OtherA), Entry(OtherB)>>,
     relations |-> <<Relation("Implements", Ref(OtherA),
                              Ref(UnresolvedObject(15, NameB)))>>],
    [objects |-> <<Entry(OtherC)>>,
     relations |-> <<Relation("Inheritance", Ref(OtherC),
                              Ref(UnresolvedObject(16, NameA)))>>],
    [objects |-> <<Entry(OtherAI)>>, relations |-> <<>>],
    [objects |-> <<Entry(OtherAI), Entry(OtherC)>>,
     relations |-> <<Relation("Inheritance", Ref(OtherC), Ref(OtherAI))>>],
    [objects |-> <<Entry(OtherA), Entry(OtherB)>>,
     relations |-> <<Relation("Implements", Ref(OtherA), Ref(OtherB))>>] }

(* the names a parser may reference: X is never declared *)
ReferenceNames == {NameA, NameB, NameX}

RelationKinds == {"Inheritance"}

----------------------------------------------------------------------------
(* The Diagram API, called in any order *)

NoBuild == [entry |-> "none"]
NoView == [exists |-> FALSE]
NoPlan == [exists |-> FALSE]
NoTree == [exists |-> FALSE]

Op(op, name, threw) == [op |-> op, name |-> name, threw |-> threw]

Init ==
  /\ objects = <<>>
  /\ relations = <<>>
  /\ warnings = <<>>
  /\ nextId = 100
  /\ fuseCount = 0
  /\ lastOp = Op("new", <<>>, "")
  /\ pc = "api"
  /\ build = NoBuild
  /\ view = NoView
  /\ plan = NoPlan
  /\ tree = NoTree

RegisteredRefs(objs) == {Ref(objs[i].value) : i \in 1..Len(objs)}

EndpointChoices(objs) ==
  {[object |-> r] : r \in RegisteredRefs(objs)} \cup
  {[unresolved |-> n] : n \in ReferenceNames}

AddObject(o) ==
  /\ pc = "api"
  /\ LET r == addObject(objects, o)
     IN /\ objects' = r.objects
        /\ lastOp' = Op("addObject", o.name, r.threw)
  /\ UNCHANGED <<relations, warnings, nextId, fuseCount, pc, build, view, plan, tree>>

(* addRelation(new Kind(a, b)): an endpoint is a registered object or a *)
(* new UnresolvedObject(name)                                           *)
AddRelation(kind, a, b) ==
  /\ pc = "api"
  /\ Len(relations) < MaxRelations
  /\ LET na == IF "unresolved" \in DOMAIN a THEN 1 ELSE 0
         nb == IF "unresolved" \in DOMAIN b THEN 1 ELSE 0
         ea == IF na = 1 THEN Ref(UnresolvedObject(nextId, a.unresolved))
                         ELSE a.object
         eb == IF nb = 1 THEN Ref(UnresolvedObject(nextId + na, b.unresolved))
                         ELSE b.object
     IN /\ relations' = addRelation(relations, Relation(kind, ea, eb))
        /\ nextId' = nextId + na + nb
  /\ lastOp' = Op("addRelation", <<>>, "")
  /\ UNCHANGED <<objects, warnings, fuseCount, pc, build, view, plan, tree>>

Fuse(other) ==
  /\ pc = "api"
  /\ fuseCount < MaxFuses
  /\ Len(relations) + Len(other.relations) <= MaxRelations
  /\ LET r == DiagramFuse(objects, relations, other)
     IN /\ objects' = r.objects
        /\ relations' = r.relations
        /\ lastOp' = Op("fuse", <<>>, r.threw)
  /\ fuseCount' = fuseCount + 1
  /\ UNCHANGED <<warnings, nextId, pc, build, view, plan, tree>>

ResolveObjects ==
  /\ pc = "api"
  /\ LET r == resolveObjects(objects, relations,
                             [warnings |-> warnings, nextId |-> nextId])
     IN /\ relations' = r.relations
        /\ warnings' = r.warnings
        /\ nextId' = r.nextId
  /\ lastOp' = Op(IF lastOp.op \in {"resolveObjects", "resolveObjectsAgain"}
                    THEN "resolveObjectsAgain" ELSE "resolveObjects", <<>>, "")
  /\ UNCHANGED <<objects, fuseCount, pc, build, view, plan, tree>>

Next ==
  \/ \E o \in ObjectPool : AddObject(o)
  \/ \E kind \in RelationKinds :
       \E a \in EndpointChoices(objects) :
         \E b \in EndpointChoices(objects) :
           AddRelation(kind, a, b)
  \/ \E other \in OtherDiagrams : Fuse(other)
  \/ ResolveObjects

Spec == Init /\ [][Next]_vars

----------------------------------------------------------------------------
(* Properties of the Diagram API and of the resolution pass *)

ResolveOps == {"resolveObjects", "resolveObjectsAgain"}

(* An endpoint the claim speaks about: a placeholder, or the object that *)
(* is registered under its name                                          *)
IsRegisteredOrPlaceholder(objs, e) ==
  IsUnresolved(e) \/ e \in RegisteredRefs(objs)

EndpointResolved(objs, before, after) ==
  IsRegisteredOrPlaceholder(objs, before) =>
    IF hasObject(objs, NameOf(before))
      THEN after = Ref(getObject(objs, NameOf(before)))
      ELSE after.cls # "String" /\ NameOf(after) = NameOf(before)

(* C1: after resolveObjects every relation endpoint is the object that the *)
(* diagram's table holds under the name of the original reference, or, for *)
(* a name the table lacks, a stub object carrying that name.               *)
C1_ResolveLeavesObjects ==
  [][lastOp'.op \in ResolveOps =>
       \A i \in 1..Len(relations) :
         /\ EndpointResolved(objects, relations[i].a, relations'[i].a)
         /\ EndpointResolved(objects, relations[i].b, relations'[i].b)]_vars

NamesUnique ==
  /\ \A i, j \in 1..Len(objects) : objects[i].key = objects[j].key => i = j
  /\ \A i \in 1..Len(objects) : objects[i].value.name = objects[i].key

AddObjectStep ==
  lastOp'.op = "addObject" =>
    IF hasObject(objects, lastOp'.name)
      THEN /\ lastOp'.threw = DuplicateError
           /\ objects' = objects
           /\ relations' = relations
      ELSE /\ lastOp'.threw = ""
           /\ Len(objects') = Len(objects) + 1
           /\ SubSeq(objects', 1, Len(objects)) = objects
           /\ relations' = relations

AddRelationStep ==
  lastOp'.op = "addRelation" =>
    /\ lastOp'.threw = ""
    /\ Len(relations') = Len(relations) + 1
    /\ SubSeq(relations', 1, Len(relations)) = relations
    /\ objects' = objects

(* C4: object names stay unique under addObject, addRelation and fuse, each *)
(* key being the name of the object stored under it; addObject with a name  *)
(* already present throws the duplicate-object error and leaves the table   *)
(* and the relation list as they were; addRelation never throws.            *)
C4_UniqueNames ==
  []NamesUnique /\ [][AddObjectStep /\ AddRelationStep]_vars

C4_Witness ==
  /\ lastOp = Op("addObject", NameA, DuplicateError)
  /\ fuseCount > 0
  /\ Len(relations) > 0
  /\ Len(objects) > 1

----------------------------------------------------------------------------
(* The association pass on documented classes *)

EmptyConfig == <<>>

InferConfigs ==
  {EmptyConfig} \cup {[merge |-> TRUE, maxRoles |-> k] : k \in {-1, 1, 2}}

InferAssociations(partialConfig) ==
  /\ pc = "infer"
  /\ relations' = inferAssociations(objects, relations, partialConfig)
  /\ lastOp' = Op("inferAssociations", <<>>, "") @@
                [config |-> partialConfig @@ DEFAULT_INFER_ASSOCIATIONS_CONFIG]
  /\ pc' = "done"
  /\ UNCHANGED <<objects, warnings, nextId, fuseCount, build, view, plan, tree>>

(* the words an @assoc line is made of *)
AssocTokens ==
  { <<"1">>, <<"0", ".", ".", "*">>, <<"r">>, <<"n">>,
    <<"*", "-", ">">>, <<"o", "-", ">">>, <<"-", ">">>,
    <<"$", "f">>, <<"$", "a", "-", "b">>, <<"$", "1">>, <<>> }

RECURSIVE TokenLists(_)
TokenLists(n) ==
  IF n = 0 THEN {<<>>}
  ELSE LET shorter == TokenLists(n - 1)
       IN shorter \cup {Append(l, t) : l \in shorter, t \in AssocTokens}

AssocLine(tokens) == AtAssoc \o <<" ">> \o Join(tokens, <<" ">>)

(* "1 roleA relName *-> 0..* roleB $flat B" *)
ReadmeTokens ==
  << <<"1">>, <<"r", "o", "l", "e", "A">>, <<"r", "e", "l", "N", "a", "m", "e">>,
     <<"*", "-", ">">>, <<"0", ".", ".", "*">>, <<"r", "o", "l", "e", "B">>,
     <<"$", "f", "l", "a", "t">>, NameB >>

(* the words of the two sides: an empty word stands between two spaces *)
SideTokens == { <<>>, <<"r">>, <<"n">>, <<"1">>, <<"-", ">">> }

SideTokenLists == {<<a, b, c>> : a \in SideTokens, b \in SideTokens, c \in SideTokens}

AssocLines ==
  {AssocLine(Append(l, target)) : l \in TokenLists(MaxTokens) \cup SideTokenLists,
                                  target \in {NameB, NameX}}
  \cup {AssocLine(ReadmeTokens)}

Documented(object, line) == [object EXCEPT !.doc = <<DocAttribute(line)>>]

AttributeLists ==
  { <<>>, <<Attribute(<<"x">>, NamedType(NameB))>> }

AssocTargets == {ClassObject(3, NameB), InterfaceObject(3, NameB)}

AssocDiagrams ==
  { <<Entry(Documented([ClassObject(1, NameA) EXCEPT !.attributes = attrs],
                       line)),
      Entry(b)>> :
      line \in AssocLines, attrs \in AttributeLists, b \in AssocTargets }

(* Diagrams for the inference over attributes: class A, whose doc may    *)
(* carry @noassoc and an @assoc, with attributes roleX, roleY, ... and a *)
(* class B, which may itself hold an attribute of type A                 *)
RoleX == <<"r", "o", "l", "e", "X">>
RoleY == <<"r", "o", "l", "e", "Y">>
RoleZ == <<"r", "o", "l", "e", "Z">>

RoleNames == <<RoleX, RoleY, RoleZ>>

AttributeTypes ==
  { NamedType(NameB), NamedType(NameX), ListType(NamedType(NameB)),
    SourceType(<<"M", "<", "B", ",", "A", ">">>) }

NoAssocTag == DocAttribute(AtNoAssoc)

AttributeDocs ==
  { <<>>, <<NoAssocTag>>, <<DocAttribute(AssocLine(<< <<"r">>, NameB >>))>> }

OwnerDocs ==
  { <<>>, <<NoAssocTag>>,
    <<DocAttribute(AssocLine(<< <<"n">>, NameB >>))>>,
    <<NoAssocTag, DocAttribute(AssocLine(<< <<"n">>, NameB >>))>> }

RECURSIVE InferAttributeLists(_)
InferAttributeLists(n) ==
  IF n = 0 THEN {<<>>}
  ELSE LET shorter == InferAttributeLists(n - 1)
       IN shorter \cup
          {Append(l, [Attribute(RoleNames[n], type) EXCEPT !.doc = doc]) :
             l \in {x \in shorter : Len(x) = n - 1},
             type \in AttributeTypes, doc \in AttributeDocs}

InferTargets ==
  { ClassObject(3, NameB),
    [ClassObject(3, NameB) EXCEPT
       !.attributes = <<Attribute(<<"z">>, NamedType(NameA))>>] }

InferDiagrams ==
  { <<Entry([ClassObject(1, NameA) EXCEPT !.attributes = attrs, !.doc = doc]),
      Entry(b)>> :
      attrs \in InferAttributeLists(MaxAttributes), doc \in OwnerDocs,
      b \in InferTargets }

MyAttribute == <<"m", "y", "A", "t", "t", "r", "i", "b", "u", "t", "e">>

(* classes A (attribute myAttribute: B) and B (no attributes) *)
C14Table ==
  <<Entry([ClassObject(1, NameA) EXCEPT
             !.attributes = <<Attribute(MyAttribute, NamedType(NameB))>>]),
    Entry(ClassObject(3, NameB))>>

InitAssoc ==
  /\ objects \in AssocDiagrams \cup InferDiagrams \cup {C14Table}
  /\ relations = <<>>
  /\ warnings = <<>>
  /\ nextId = 100
  /\ fuseCount = 0
  /\ lastOp = Op("new", <<>>, "")
  /\ pc = "infer"
  /\ build = NoBuild
  /\ view = NoView
  /\ plan = NoPlan
  /\ tree = NoTree

NextAssoc == \E config \in InferConfigs : InferAssociations(config)

SpecAssoc == InitAssoc /\ [][NextAssoc]_vars

C9Table(b) ==
  <<Entry(Documented(ClassObject(1, NameA), AssocLine(ReadmeTokens))), Entry(b)>>

C9Relation(b) ==
  [kind |-> "Associative",
   a |-> Ref(ClassObject(1, NameA)),
   b |-> Ref(b),
   visual |-> {<<"f", "l", "a", "t">>},
   name |-> <<"r", "e", "l", "N", "a", "m", "e">>,
   roleA |-> <<"r", "o", "l", "e", "A">>,
   roleB |-> <<"r", "o", "l", "e", "B">>,
   headA |-> <<"*">>,
   headB |-> <<">">>,
   multiplicityA |-> <<"1">>,
   multiplicityB |-> <<"0", ".", ".", "*">>]

(* C9: for class A without attributes, documented with                    *)
(* "@assoc 1 roleA relName *-> 0..* roleB $flat B", and B registered,      *)
(* inferAssociations adds exactly one relation: Associative, A to B,       *)
(* multiplicities "1" and "0..*", roles roleA and roleB, name relName,     *)
(* flag flat set, head "*" at A and ">" at B.                              *)
C9_ReadmeAssociation ==
  [][\A b \in AssocTargets :
       (objects = C9Table(b) /\ relations = <<>> /\
        lastOp'.op = "inferAssociations")
         => relations' = <<C9Relation(b)>>]_vars

C9_Witness ==
  /\ pc = "done"
  /\ \E b \in AssocTargets : objects = C9Table(b) /\ relations = <<C9Relation(b)>>

(* The @assoc tag of the first object of the table, whose relation is the *)
(* first one the pass adds                                                 *)
FirstIsDocumented ==
  Len(objects) >= 1 /\ HasAttribute(objects[1].value.doc, AtAssoc)

AssocParams == findAttribute(objects[1].value.doc, AtAssoc).params

NonFinal(params) == 1..(Len(params) - 1)

HeadsFrom(rel, token) ==
  /\ rel.headA = CharAt(token, IndexOf(token, "-") - 1)
  /\ rel.headB = CharAt(token, IndexOf(token, "-") + 1)

Maximum(S) == CHOOSE x \in S : \A y \in S : y <= x
Minimum(S) == CHOOSE x \in S : \A y \in S : x <= y

LastOf(params, S) == IF S = {} THEN <<>> ELSE params[Maximum(S)]

(* the tokens before position `it` went to the A side of rel and the *)
(* tokens after it to the B side                                     *)
SidesAt(rel, params, it) ==
  LET plain == {k \in NonFinal(params) :
                  ~StartsWith(params[k], "$") /\ ~Includes(params[k], "-")}
      multsA == {k \in plain : k < it /\ MULTIPLICITY(params[k])}
      multsB == {k \in plain : k > it /\ MULTIPLICITY(params[k])}
      wordsA == {k \in plain : k < it /\ ~MULTIPLICITY(params[k])}
      wordsB == {k \in plain : k > it /\ ~MULTIPLICITY(params[k])}
  IN /\ rel.multiplicityA = LastOf(params, multsA)
     /\ rel.multiplicityB = LastOf(params, multsB)
     /\ rel.roleB = LastOf(params, wordsB)
     /\ rel.roleA \in {<<>>} \cup {params[k] : k \in wordsA}
     /\ rel.name \in {<<>>} \cup {params[k] : k \in wordsA}

ArrowTokens(params) ==
  {it \in NonFinal(params) :
     Includes(params[it], "-") /\ ~StartsWith(params[it], "$")}

SideSplit(params) ==
  IF ArrowTokens(params) = {} THEN Len(params)
  ELSE Minimum(ArrowTokens(params))

(* the non-final tokens that are neither flags, arrows nor multiplicities *)
OrdinaryTokens(params) ==
  {k \in NonFinal(params) :
     /\ ~StartsWith(params[k], "$")
     /\ ~Includes(params[k], "-")
     /\ ~MULTIPLICITY(params[k])}

MultiplicityTokens(params) ==
  {k \in NonFinal(params) : MULTIPLICITY(params[k])}

FirstOf(params, S) == IF S = {} THEN <<>> ELSE params[Minimum(S)]

(* what both statements of C11 say of multiplicities and of the B role: *)
(* the last multiplicity token of a side is that side's multiplicity    *)
(* and the last ordinary token of the B side is roleB                   *)
MultiplicitiesAndRoleB(rel, params) ==
  LET split == SideSplit(params)
  IN /\ rel.multiplicityA =
          LastOf(params, {k \in MultiplicityTokens(params) : k < split})
     /\ rel.multiplicityB =
          LastOf(params, {k \in MultiplicityTokens(params) : k > split})
     /\ rel.roleB = LastOf(params, {k \in OrdinaryTokens(params) : k > split})

(* C11 as stated: a multiplicity token becomes the multiplicity of its    *)
(* side; of the ordinary tokens of the A side the first becomes roleA and *)
(* the second the name; an ordinary token of the B side becomes roleB.    *)
C11_FirstRoleSecondName ==
  (pc = "done" /\ FirstIsDocumented) =>
    LET params == AssocParams
        wordsA == {k \in OrdinaryTokens(params) : k < SideSplit(params)}
        later == {k \in wordsA : \E j \in wordsA : j < k}
    IN /\ MultiplicitiesAndRoleB(relations[1], params)
       /\ relations[1].roleA = FirstOf(params, wordsA)
       /\ relations[1].name = FirstOf(params, later)

(* C11, amended: the last multiplicity token of a side is that side's     *)
(* multiplicity and the last ordinary token of the B side is roleB; on    *)
(* the A side the first non-empty ordinary token is roleA and the last    *)
(* ordinary token after that one, if any, is the name; multiplicity       *)
(* tokens change neither a role nor the name.                             *)
C11_RoleThenLastName ==
  (pc = "done" /\ FirstIsDocumented) =>
    LET params == AssocParams
        wordsA == {k \in OrdinaryTokens(params) : k < SideSplit(params)}
        filled == {k \in wordsA : params[k] # <<>>}
    IN /\ MultiplicitiesAndRoleB(relations[1], params)
       /\ relations[1].roleA = FirstOf(params, filled)
       /\ relations[1].name =
            IF filled = {} THEN <<>>
            ELSE LastOf(params, {k \in wordsA : k > Minimum(filled)})

C11_Witness ==
  /\ pc = "done"
  /\ FirstIsDocumented
  /\ AssocParams = << <<"r">>, <<"n">>, <<"r">>, NameB >>
  /\ relations[1].roleA = <<"r">>
  /\ relations[1].name = <<"r">>

(* the params without the flag tokens, the final token kept *)
RECURSIVE WithoutFlags(_, _)
WithoutFlags(params, i) ==
  IF i > Len(params) THEN <<>>
  ELSE IF i < Len(params) /\ StartsWith(params[i], "$")
    THEN WithoutFlags(params, i + 1)
    ELSE <<params[i]>> \o WithoutFlags(params, i + 1)

(* C12: the flags of the relation are exactly the texts after the "$" of  *)
(* the non-final "$" tokens, and in everything else the relation is the   *)
(* one the same params give with those tokens left out, also when a "$"   *)
(* token contains a dash or a multiplicity.                               *)
C12_VisualFlagsOnly ==
  (pc = "done" /\ FirstIsDocumented) =>
    LET params == AssocParams
        flags == {k \in NonFinal(params) : StartsWith(params[k], "$")}
        plain == parseAssociation(objects[1].value, objects,
                                  [params |-> WithoutFlags(params, 1)])
    IN /\ relations[1].visual = {Substr(params[k], 1) : k \in flags}
       /\ plain.visual = {}
       /\ [relations[1] EXCEPT !.visual = {}] = plain

C12_Witness ==
  /\ pc = "done"
  /\ FirstIsDocumented
  /\ AssocParams = << <<"$", "a", "-", "b">>, <<"$", "1">>, NameB >>
  /\ relations[1].visual = { <<"a", "-", "b">>, <<"1">> }
  /\ relations[1].headB = <<">">>
  /\ relations[1].multiplicityA = <<>>

(* What the attributes of an object contribute, stated from the tags and *)
(* the type names rather than from the loops of the pass                 *)

Count(seq, x) == Cardinality({k \in 1..Len(seq) : seq[k] = x})

(* the relations of the list whose A endpoint is the object, in order *)
RECURSIVE FromObject(_, _, _)
FromObject(rels, o, k) ==
  IF k > Len(rels) THEN <<>>
  ELSE IF rels[k].a = Ref(o)
    THEN <<rels[k]>> \o FromObject(rels, o, k + 1)
    ELSE FromObject(rels, o, k + 1)

RegisteredNames == {objects[i].key : i \in 1..Len(objects)}

TypeNames(type) == {collectNames(type)[k] : k \in 1..Len(collectNames(type))}

AssocTagged(o) == {j \in 1..Len(o.attributes) : HasAttribute(o.attributes[j].doc, AtAssoc)}

Untagged(o) ==
  {j \in 1..Len(o.attributes) :
     /\ ~HasAttribute(o.attributes[j].doc, AtAssoc)
     /\ ~HasAttribute(o.attributes[j].doc, AtNoAssoc)}

(* the (attribute, target name) pairs the statement records a role for *)
RolePairs(o) ==
  {<<j, name>> : j \in Untagged(o), name \in RegisteredNames} \cap
  {p \in (1..Len(o.attributes)) \X RegisteredNames :
     p[2] \in TypeNames(o.attributes[p[1]].type)}

(* the names of the untagged attributes whose type names the target, in *)
(* attribute order                                                      *)
RECURSIVE RolesFor(_, _, _)
RolesFor(o, name, j) ==
  IF j > Len(o.attributes) THEN <<>>
  ELSE IF <<j, name>> \in RolePairs(o)
    THEN <<o.attributes[j].name>> \o RolesFor(o, name, j + 1)
    ELSE RolesFor(o, name, j + 1)

OwnRelations(o) ==
  IF HasAttribute(o.doc, AtAssoc)
    THEN <<parseAssociation(o, objects, findAttribute(o.doc, AtAssoc))>>
    ELSE <<>>

ExplicitOf(o, j) ==
  parseAssociation(o, objects, findAttribute(o.attributes[j].doc, AtAssoc))

(* an Associative relation from o to the object of that name, with only *)
(* the B role set                                                       *)
Labelled(o, name, roleB) ==
  [kind |-> "Associative", a |-> Ref(o), b |-> Ref(getObject(objects, name)),
   visual |-> {}, name |-> <<>>, roleA |-> <<>>, roleB |-> roleB,
   headA |-> <<>>, headB |-> <<">">>,
   multiplicityA |-> <<>>, multiplicityB |-> <<>>]

NoAnnotations ==
  \A i \in 1..Len(objects) :
    /\ objects[i].value.doc = <<>>
    /\ "attributes" \in DOMAIN objects[i].value =>
         \A j \in 1..Len(objects[i].value.attributes) :
           objects[i].value.attributes[j].doc = <<>>

Inferring(o) == IsClassObject(o) /\ ~HasAttribute(o.doc, AtNoAssoc)

InferDone == pc = "done" /\ lastOp.op = "inferAssociations"

(* C13: with merge on, an object without tags whose untagged attributes    *)
(* name a registered target gets exactly one relation to that target; its *)
(* B role is the attribute names joined by ", " in attribute order when   *)
(* maxRoles is -1 or at least their number, and empty otherwise: for      *)
(* roleX and roleY, "roleX, roleY" with maxRoles -1 and "" with 1.        *)
C13_MergedLabel ==
  (InferDone /\ lastOp.config.merge) =>
    \A i \in 1..Len(objects) :
      LET o == objects[i].value
          from == FromObject(relations, o, 1)
      IN (Inferring(o) /\ o.doc = <<>> /\ Untagged(o) = 1..Len(o.attributes)) =>
           \A name \in RegisteredNames :
             LET roles == RolesFor(o, name, 1)
                 to == {k \in 1..Len(from) : from[k].b = Ref(getObject(objects, name))}
                 label == IF lastOp.config.maxRoles = -1
                             \/ Len(roles) <= lastOp.config.maxRoles
                            THEN Join(roles, <<",", " ">>) ELSE <<>>
             IN /\ Cardinality(to) = IF roles = <<>> THEN 0 ELSE 1
                /\ \A k \in to : from[k] = Labelled(o, name, label)
                /\ roles = <<RoleX, RoleY>> =>
                     \A k \in to :
                       from[k].roleB =
                         IF lastOp.config.maxRoles = 1 THEN <<>>
                         ELSE RoleX \o <<",", " ">> \o RoleY

C13_Witness ==
  /\ InferDone
  /\ lastOp.config = [merge |-> TRUE, maxRoles |-> 1]
  /\ objects[1].value.doc = <<>>
  /\ Len(objects[1].value.attributes) = 2
  /\ RolesFor(objects[1].value, NameB, 1) = <<RoleX, RoleY>>
  /\ FromObject(relations, objects[1].value, 1) =
       <<Labelled(objects[1].value, NameB, <<>>)>>

(* C14: with the default configuration and no annotations the pass adds   *)
(* exactly one relation per (attribute, registered target) pair, from the *)
(* owner to the target with the attribute name as B role and nothing      *)
(* else set; for A (myAttribute: B) and B that is the single relation     *)
(* A -> B with B role "myAttribute".                                      *)
C14_OnePerRole ==
  (InferDone /\ ~lastOp.config.merge /\ NoAnnotations) =>
    /\ \A i \in 1..Len(objects) :
         LET o == objects[i].value
             from == FromObject(relations, o, 1)
             pairs == IF IsClassObject(o) THEN RolePairs(o) ELSE {}
         IN /\ Len(from) = Cardinality(pairs)
            /\ \A p \in pairs :
                 Count(from, Labelled(o, p[2], o.attributes[p[1]].name)) = 1
    /\ objects = C14Table =>
         relations = <<Labelled(objects[1].value, NameB, MyAttribute)>>

C14_Witness ==
  /\ InferDone
  /\ objects = C14Table
  /\ ~lastOp.config.merge
  /\ Len(relations) = 1
  /\ relations[1].roleB = MyAttribute

(* C15: an object whose doc carries @noassoc gets no relation from its    *)
(* attributes, inferred or explicit, whatever the configuration; the      *)
(* relation of its own @assoc tag, when it has one, is still added.       *)
C15_NoAssocObject ==
  InferDone =>
    \A i \in 1..Len(objects) :
      HasAttribute(objects[i].value.doc, AtNoAssoc) =>
        FromObject(relations, objects[i].value, 1) = OwnRelations(objects[i].value)

C15_Witness ==
  /\ InferDone
  /\ HasAttribute(objects[1].value.doc, AtNoAssoc)
  /\ HasAttribute(objects[1].value.doc, AtAssoc)
  /\ Len(objects[1].value.attributes) = 2
  /\ AssocTagged(objects[1].value) = {1}
  /\ RolePairs(objects[1].value) # {}
  /\ Len(FromObject(relations, objects[1].value, 1)) = 1

(* C16: for a class-like object without @noassoc, besides the relation of *)
(* its own @assoc tag: each attribute with @assoc adds exactly its one    *)
(* explicit relation and no role, each attribute with @noassoc (and no    *)
(* @assoc) adds nothing, and each other attribute adds a role for exactly *)
(* the registered names among its type's names.  With merge off every     *)
(* role is one relation; with merge on every target with a role is one.   *)
C16_PerAttribute ==
  InferDone =>
    \A i \in 1..Len(objects) :
      LET o == objects[i].value
          from == FromObject(relations, o, 1)
          explicit == {ExplicitOf(o, j) : j \in AssocTagged(o)}
          own == {OwnRelations(o)[k] : k \in 1..Len(OwnRelations(o))}
          targets == {p[2] : p \in RolePairs(o)}
      IN Inferring(o) =>
           IF lastOp.config.merge
             THEN /\ Len(from) = Len(OwnRelations(o)) + Cardinality(AssocTagged(o))
                                 + Cardinality(targets)
                  /\ {from[k].b : k \in 1..Len(from)} =
                       {r.b : r \in own \cup explicit} \cup
                       {Ref(getObject(objects, name)) : name \in targets}
             ELSE /\ Len(from) = Len(OwnRelations(o)) + Cardinality(AssocTagged(o))
                                 + Cardinality(RolePairs(o))
                  /\ \A r \in {from[k] : k \in 1..Len(from)} :
                       Count(from, r) =
                         Count(OwnRelations(o), r)
                         + Cardinality({j \in AssocTagged(o) : ExplicitOf(o, j) = r})
                         + Cardinality({p \in RolePairs(o) :
                              Labelled(o, p[2], o.attributes[p[1]].name) = r})

C16_Witness ==
  /\ InferDone
  /\ ~lastOp.config.merge
  /\ objects[1].value.doc = <<>>
  /\ Len(objects[1].value.attributes) = 2
  /\ AssocTagged(objects[1].value) = {1}
  /\ TypeNames(objects[1].value.attributes[1].type) = {<<"M">>, NameA, NameB}
  /\ TypeNames(objects[1].value.attributes[2].type) = {<<"M">>, NameA, NameB}
  /\ Len(FromObject(relations, objects[1].value, 1)) = 3

(* An identical copy of a diagram: the same objects in the same order    *)
(* with the same members and tags, each a distinct object of its own    *)
(* (identities are remapped, in reverse order)                          *)
CopyIdentity(id) == 50 - id

CopyRef(r) == IF "id" \in DOMAIN r THEN [r EXCEPT !.id = CopyIdentity(@)] ELSE r

CopyObjects(objs) ==
  [i \in 1..Len(objs) |->
     [key |-> objs[i].key,
      value |-> [objs[i].value EXCEPT !.id = CopyIdentity(@)]]]

CopyRelations(rels) ==
  [k \in 1..Len(rels) |-> [rels[k] EXCEPT !.a = CopyRef(@), !.b = CopyRef(@)]]

----------------------------------------------------------------------------
(* One View over a built diagram: buildPackageTree, Diagram.view or       *)
(* Diagram.viewAll, then View.withAdjacent and View.planRender in any     *)
(* order.  Views share nothing but the diagram they read, so a single one *)
(* is followed.                                                           *)

PackageP == <<"p">>
PackageQ == <<"q">>
PackageR == <<"r">>

ViewA == [ClassObject(21, NameA) EXCEPT !.package = <<PackageP, PackageQ>>]
ViewB == [InterfaceObject(22, NameB) EXCEPT !.package = <<PackageP, PackageR>>]
ViewC == [ClassObject(23, NameC) EXCEPT !.package = <<PackageP, PackageQ, PackageR>>]

ViewTables ==
  { <<Entry(ViewA), Entry(ViewB), Entry(ViewC)>>,
    <<Entry(ViewA), Entry(ViewC)>>,
    <<>> }

RECURSIVE RelationLists(_, _)
RelationLists(pairs, n) ==
  IF n = 0 THEN {<<>>}
  ELSE LET shorter == RelationLists(pairs, n - 1)
       IN shorter \cup
          {Append(l, Relation("Inheritance", p[1], p[2])) :
             l \in {s \in shorter : Len(s) = n - 1}, p \in pairs}

(* A from a registered object; B a registered object or, after the *)
(* resolution pass, the bare name of a type nobody declared        *)
ViewEndpoints(objs) ==
  RegisteredRefs(objs) \X (RegisteredRefs(objs) \cup {StringValue(NameX)})

InitView ==
  /\ objects \in ViewTables
  /\ relations \in RelationLists(ViewEndpoints(objects), MaxViewRelations)
  /\ warnings = <<>>
  /\ nextId = 100
  /\ fuseCount = 0
  /\ lastOp = Op("new", <<>>, "")
  /\ pc = "view"
  /\ build = NoBuild
  /\ view = NoView
  /\ plan = NoPlan
  /\ tree = NoTree

BuildPackageTree ==
  /\ pc = "view"
  /\ LET r == buildPackageTree(objects)
     IN /\ tree' = IF r.exists THEN r ELSE tree
        /\ lastOp' = Op("buildPackageTree", <<>>, r.threw)
  /\ UNCHANGED <<objects, relations, warnings, nextId, fuseCount, pc, build,
                 view, plan>>

(* the package nodes of the built tree: the root and what get(path) returns *)
PackageNodes(t) ==
  IF ~t.exists THEN {}
  ELSE {t.root} \cup
       {PackageGet(t.nodes, <<>>, path) : path \in DOMAIN t.nodes \ {<<>>}}

(* diagram.view(object) *)
DiagramView(object) ==
  /\ pc = "view"
  /\ ~view.exists
  /\ view' = NewView(nextId, {object})
  /\ nextId' = nextId + 1
  /\ lastOp' = Op("view", object.name, "")
  /\ UNCHANGED <<objects, relations, warnings, fuseCount, pc, build, plan, tree>>

(* diagram.viewAll() *)
DiagramViewAll ==
  /\ pc = "view"
  /\ ~view.exists
  /\ view' = NewView(nextId, RegisteredRefs(objects))
  /\ nextId' = nextId + 1
  /\ lastOp' = Op("viewAll", <<>>, "")
  /\ UNCHANGED <<objects, relations, warnings, fuseCount, pc, build, plan, tree>>

WithAdjacent ==
  /\ pc = "view"
  /\ view.exists
  /\ view' = withAdjacent(view)
  /\ lastOp' = [op |-> "withAdjacent", name |-> <<>>, threw |-> "",
                returned |-> view'.id]
  /\ UNCHANGED <<objects, relations, warnings, nextId, fuseCount, pc, build,
                 plan, tree>>

PlanRender ==
  /\ pc = "view"
  /\ view.exists
  /\ plan' = planRender(view, tree, relations)
  /\ lastOp' = Op("planRender", <<>>, "")
  /\ UNCHANGED <<objects, relations, warnings, nextId, fuseCount, pc, build,
                 view, tree>>

NextView ==
  \/ BuildPackageTree
  \/ \E object \in RegisteredRefs(objects) \cup PackageNodes(tree) :
       DiagramView(object)
  \/ DiagramViewAll
  \/ WithAdjacent
  \/ PlanRender

SpecView == InitView /\ [][NextView]_vars

(* the plan in `plan` is the one planRender() has just returned for `view` *)
PlanIsFresh == lastOp.op = "planRender" /\ plan.exists /\ view.exists

RenderedNow == Rendered(view, tree)

Included(i) == \E k \in 1..Len(plan.relations) : plan.relations[k] = i

InAdjacent(x) == \E k \in 1..Len(plan.adjacent) : plan.adjacent[k] = x

IsPackageRoot(o) == o.cls = "PackageObject"

(* the objects declared in the package of a tree node or below it *)
LeavesBelow(node) ==
  LET prefix == CommonPrefix(objects, 1, Null).path
  IN {Ref(objects[i].value) : i \in
        {j \in 1..Len(objects) :
           LET rest == SubSeq(objects[j].value.package, Len(prefix) + 1,
                              Len(objects[j].value.package))
           IN /\ Len(rest) >= Len(node.path)
              /\ SubSeq(rest, 1, Len(node.path)) = node.path}}

(* C5 as stated: the objects of the plan of view(root) are                *)
(* root.collectObjects(), {root} for a plain object and the transitively  *)
(* contained leaves for a package node.                                   *)
C5_PlanObjectsAreCollected ==
  PlanIsFresh =>
    \A root \in view.objects :
      view.objects = {root} =>
        /\ plan.objects = collectObjects(Nodes(tree), root)
        /\ ~IsPackageRoot(root) => plan.objects = {root}
        /\ IsPackageRoot(root) => plan.objects = LeavesBelow(root)

(* C5 amended: the objects of the plan of view(root) are the root set     *)
(* {root} itself; root.collectObjects() is the rendered set, which is     *)
(* {root} for a plain object and the transitively contained leaves for a  *)
(* package node, so the two agree exactly when the root is a plain object *)
(* (a package node is never one of its own leaves).                       *)
C5_PlanObjectsAreRoots ==
  PlanIsFresh =>
    /\ plan.objects = view.objects
    /\ \A root \in view.objects :
         view.objects = {root} =>
           /\ plan.objects = {root}
           /\ ~IsPackageRoot(root) => collectObjects(Nodes(tree), root) = {root}
           /\ IsPackageRoot(root) =>
                /\ collectObjects(Nodes(tree), root) = LeavesBelow(root)
                /\ plan.objects # collectObjects(Nodes(tree), root)

C5_Witness ==
  /\ PlanIsFresh
  /\ \E root \in view.objects :
       /\ view.objects = {root}
       /\ IsPackageRoot(root)
       /\ root.path # <<>>
       /\ Cardinality(collectObjects(Nodes(tree), root)) = 2

(* C6: a relation of the diagram is in the plan iff both endpoints are    *)
(* rendered, or adjacency is on and its A endpoint is rendered; the plan  *)
(* lists the included relations in diagram order, each at most once.      *)
C6_RelationSelection ==
  PlanIsFresh =>
    /\ \A i \in 1..Len(relations) :
         Included(i) <=>
           \/ relations[i].a \in RenderedNow /\ relations[i].b \in RenderedNow
           \/ view.showAdjacent /\ relations[i].a \in RenderedNow
    /\ \A k \in 1..Len(plan.relations) : plan.relations[k] \in 1..Len(relations)
    /\ \A k \in 1..(Len(plan.relations) - 1) :
         plan.relations[k] < plan.relations[k + 1]

C6_Witness ==
  /\ PlanIsFresh
  /\ view.showAdjacent
  /\ Len(relations) = 2
  /\ plan.relations = <<1, 2>>
  /\ relations[1].b \notin RenderedNow
  /\ relations[2].b \in RenderedNow
  /\ relations[1] # relations[2]

(* the A -> B half of the asymmetry, common to both statements of C7 *)
ForwardAdjacency ==
  \A i \in 1..Len(relations) :
    ( /\ view.showAdjacent
      /\ relations[i].a \in RenderedNow
      /\ relations[i].b \notin RenderedNow )
    => Included(i) /\ InAdjacent(relations[i].b)

BackwardOnly(i) ==
  relations[i].b \in RenderedNow /\ relations[i].a \notin RenderedNow

(* C7 as stated: R(a->b) with only a rendered and adjacency on puts b in  *)
(* adjacent and R in relations; R'(x->y) with only y rendered is not in   *)
(* relations and x is not in adjacent, flag or no flag.                   *)
C7_AdjacencyAsymmetry ==
  PlanIsFresh =>
    /\ ForwardAdjacency
    /\ \A i \in 1..Len(relations) :
         BackwardOnly(i) => ~Included(i) /\ ~InAdjacent(relations[i].a)

(* C7 amended: R'(x->y) with only y rendered is excluded, flag or no      *)
(* flag, and never puts x in adjacent itself: x is in adjacent only when  *)
(* adjacency is on and some included relation with a rendered A endpoint  *)
(* has x as its B endpoint.                                               *)
C7_BackwardExcluded ==
  PlanIsFresh =>
    /\ ForwardAdjacency
    /\ \A i \in 1..Len(relations) :
         BackwardOnly(i) =>
           /\ ~Included(i)
           /\ InAdjacent(relations[i].a) =>
                /\ view.showAdjacent
                /\ \E j \in 1..Len(relations) :
                     /\ j # i
                     /\ Included(j)
                     /\ relations[j].a \in RenderedNow
                     /\ relations[j].b = relations[i].a

C7_Witness ==
  /\ PlanIsFresh
  /\ view.showAdjacent
  /\ \E i \in 1..Len(relations) :
       /\ BackwardOnly(i)
       /\ ~Included(i)
       /\ InAdjacent(relations[i].a)

WithAdjacentStep == lastOp'.op = "withAdjacent"

(* C8: withAdjacent() returns the View it was called on and changes only  *)
(* the flag (roots and diagram untouched, an earlier plan unaffected);    *)
(* the flag of a View never goes back to the default; every plan made     *)
(* afterwards includes the adjacent context.                              *)
C8_WithAdjacent ==
  /\ [][WithAdjacentStep =>
          /\ lastOp'.returned = view.id
          /\ view'.id = view.id
          /\ view'.objects = view.objects
          /\ view'.showAdjacent
          /\ plan' = plan
          /\ objects' = objects /\ relations' = relations /\ tree' = tree]_vars
  /\ [][(view.exists /\ view.showAdjacent /\ view'.exists /\ view'.id = view.id)
          => view'.showAdjacent]_vars
  /\ [](PlanIsFresh /\ view.showAdjacent => ForwardAdjacency)

C8_Witness ==
  /\ lastOp.op = "withAdjacent"
  /\ view.showAdjacent
  /\ plan.exists
  /\ plan.adjacent = <<>>
  /\ \E i \in 1..Len(relations) :
       /\ relations[i].a \in RenderedNow
       /\ relations[i].b \notin RenderedNow
       /\ ~Included(i)

----------------------------------------------------------------------------
(* The build entry points Diagram.fromJavaProject, Diagram.fromGraphQLSchema *)
(* and Diagram.fromGraphQLProject: load every file, then resolveObjects,     *)
(* then inferAssociations when config.associations is set.                   *)

BuildEntries == {"fromJavaProject", "fromGraphQLSchema", "fromGraphQLProject"}

(* the pass run again after each file *)
walkTreeResolvingEach(files) == "resolve"

(* where the entry point goes on with `files` files left to load: the *)
(* walk ends, and the passes start, when none is left                 *)
walkTree(files) == IF files = 0 THEN "resolve" ELSE "walk"

(* a project directory may hold no matching file; a schema is one file *)
FileCounts(entry) ==
  IF entry = "fromGraphQLSchema" THEN {1} ELSE 0..MaxFiles

InitBuild ==
  /\ objects = <<>>
  /\ relations = <<>>
  /\ warnings = <<>>
  /\ nextId = 100
  /\ fuseCount = 0
  /\ lastOp = Op("new", <<>>, "")
  /\ \E entry \in BuildEntries :
       \E files \in FileCounts(entry) :
         \E associations \in BOOLEAN :
           /\ build = [entry |-> entry, files |-> files, declared |-> 0,
                       associations |-> associations, resolveRuns |-> 0]
           /\ pc = walkTree(files)
  /\ view = NoView
  /\ plan = NoPlan
  /\ tree = NoTree

(* the relation a declaration adds for a supertype: the Java visitor's  *)
(* superclass, the GraphQL visitor's implemented interface              *)
SuperKind(entry) ==
  IF entry = "fromJavaProject" THEN "Inheritance" ELSE "Implements"

NoSuper == <<>>

(* one type declaration of the file being loaded: addObject, then for a *)
(* supertype addRelation(object, new UnresolvedObject); a GraphQL       *)
(* interface declares none                                              *)
Declare(o, super) ==
  /\ pc = "walk"
  /\ build.declared < MaxDeclarations
  /\ super # NoSuper => IsClassObject(o) \/ build.entry = "fromJavaProject"
  /\ LET r == addObject(objects, o)
     IN /\ objects' = r.objects
        /\ IF r.threw # ""
             THEN /\ pc' = "failed"
                  /\ lastOp' = Op("addObject", o.name, r.threw)
                  /\ UNCHANGED <<relations, nextId>>
           ELSE IF super = NoSuper
             THEN /\ pc' = pc
                  /\ lastOp' = Op("addObject", o.name, "")
                  /\ UNCHANGED <<relations, nextId>>
           ELSE /\ pc' = pc
                /\ relations' =
                     addRelation(relations,
                                 Relation(SuperKind(build.entry), Ref(o),
                                          Ref(UnresolvedObject(nextId, super))))
                /\ nextId' = nextId + 1
                /\ lastOp' = Op("addRelation", o.name, "")
  /\ build' = [build EXCEPT !.declared = @ + 1]
  /\ UNCHANGED <<warnings, fuseCount, view, plan, tree>>

(* the visitor returns from the file *)
EndFile ==
  /\ pc = "walk"
  /\ build' = [build EXCEPT !.files = @ - 1, !.declared = 0]
  /\ pc' = walkTree(build.files - 1)
  /\ lastOp' = Op("endFile", <<>>, "")
  /\ UNCHANGED <<objects, relations, warnings, nextId, fuseCount, view, plan, tree>>

BuildResolve ==
  /\ pc = "resolve"
  /\ LET r == resolveObjects(objects, relations,
                             [warnings |-> warnings, nextId |-> nextId])
     IN /\ relations' = r.relations
        /\ warnings' = r.warnings
        /\ nextId' = r.nextId
  /\ build' = [build EXCEPT !.resolveRuns = @ + 1]
  /\ lastOp' = Op("resolveObjects", <<>>, "")
  /\ pc' = IF build.associations THEN "infer" ELSE "done"
  /\ UNCHANGED <<objects, fuseCount, view, plan, tree>>

NextBuild ==
  \/ \E o \in ObjectPool : \E super \in ReferenceNames \cup {NoSuper} :
       Declare(o, super)
  \/ EndFile
  \/ BuildResolve
  \/ InferAssociations(EmptyConfig)

SpecBuild == InitBuild /\ [][NextBuild]_vars

RegistrationStep == lastOp'.op \in {"addObject", "addRelation"}

(* C3: in every entry point the Resolution pass runs once per build, only *)
(* after the last file has been loaded and before inferAssociations; no   *)
(* parser registers an object or a relation once it has started, and it   *)
(* is never run while files remain.                                       *)
C3_ResolveOncePerBuild ==
  /\ [][RegistrationStep => build.resolveRuns = 0 /\ build'.resolveRuns = 0]_vars
  /\ [][build'.resolveRuns # build.resolveRuns =>
          /\ build.resolveRuns = 0 /\ build'.resolveRuns = 1
          /\ build.files = 0 /\ build'.files = 0]_vars
  /\ [][lastOp'.op = "inferAssociations" =>
          lastOp.op = "resolveObjects" /\ build.resolveRuns = 1]_vars
  /\ [](pc \in {"infer", "done"} => build.resolveRuns = 1)
  /\ [](pc \in {"walk", "resolve", "failed"} => build.resolveRuns = 0)

C3_Witness ==
  /\ pc = "done"
  /\ lastOp.op = "inferAssociations"
  /\ build.entry = "fromJavaProject"
  /\ build.resolveRuns = 1
  /\ Len(objects) = 2
  /\ Len(relations) >= 1

----------------------------------------------------------------------------
(* The package tree of a diagram: buildPackageTree, then PackageObject.get *)
(* on the tree it returned                                                 *)

PackageS == <<"s">>

(* besides the classes p.q.A, p.r.B and p.q.r.C: a class without package, *)
(* a class of another top-level package, and a class of package p that    *)
(* is named like the package p.q                                          *)
TreeD == ClassObject(24, <<"D">>)
TreeE == [ClassObject(25, <<"E">>) EXCEPT !.package = <<PackageS>>]
TreeQ == [ClassObject(26, PackageQ) EXCEPT !.package = <<PackageP>>]

TreePool == {ViewA, ViewB, ViewC, TreeD, TreeE, TreeQ}

(* the tables of up to n objects of the pool, in every insertion order *)
RECURSIVE TreeTables(_)
TreeTables(n) ==
  IF n = 0 THEN {<<>>}
  ELSE LET shorter == TreeTables(n - 1)
       IN shorter \cup
          UNION {{Append(t, Entry(o)) :
                    o \in {x \in TreePool :
                             \A i \in 1..(n - 1) : t[i].key # x.name}} :
                 t \in {x \in shorter : Len(x) = n - 1}}

TreeSegments == {PackageP, PackageQ, PackageR}

TreePaths ==
  {<<a>> : a \in TreeSegments} \cup
  {<<a, b>> : a \in TreeSegments, b \in TreeSegments}

InitTree ==
  /\ objects \in TreeTables(MaxTreeObjects)
  /\ relations = <<>>
  /\ warnings = <<>>
  /\ nextId = 100
  /\ fuseCount = 0
  /\ lastOp = Op("new", <<>>, "")
  /\ pc = "view"
  /\ build = NoBuild
  /\ view = NoView
  /\ plan = NoPlan
  /\ tree = NoTree

(* tree.get(path) *)
PackageTreeGet(path) ==
  /\ pc = "view"
  /\ tree.exists
  /\ LET object == PackageGet(tree.nodes, <<>>, path)
     IN lastOp' = [op |-> "get", name |-> <<>>,
                   threw |-> IF object.cls = TypeError THEN TypeError ELSE "",
                   path |-> path, returned |-> object]
  /\ UNCHANGED <<objects, relations, warnings, nextId, fuseCount, pc, build,
                 view, plan, tree>>

NextTree ==
  \/ BuildPackageTree
  \/ \E path \in TreePaths : PackageTreeGet(path)

SpecTree == InitTree /\ [][NextTree]_vars

Packages == {objects[i].value.package : i \in 1..Len(objects)}

IsPrefixOf(p, package) ==
  Len(p) <= Len(package) /\ SubSeq(package, 1, Len(p)) = p

(* the paths every object's package starts with *)
CommonPrefixes ==
  {p \in UNION {{SubSeq(package, 1, n) : n \in 0..Len(package)} : package \in Packages} :
     \A package \in Packages : IsPrefixOf(p, package)}

TheExample == {objects[i].value : i \in 1..Len(objects)} = {ViewA, ViewB, ViewC}

(* C17: the root of the tree is labelled with the longest path that every *)
(* object's package starts with, whatever the insertion order; for the    *)
(* packages p.q, p.r and p.q.r the label is "p" and get([q]) collects     *)
(* exactly the two objects of p.q and p.q.r.                              *)
C17_LongestCommonPrefix ==
  tree.exists =>
    /\ \E p \in CommonPrefixes :
         /\ \A other \in CommonPrefixes : Len(other) <= Len(p)
         /\ tree.root.name = Join(p, <<".">>)
    /\ TheExample =>
         /\ tree.root.name = PackageP
         /\ collectObjects(tree.nodes, PackageGet(tree.nodes, <<>>, <<PackageQ>>))
              = {Ref(ViewA), Ref(ViewC)}

C17_Witness ==
  /\ tree.exists
  /\ TheExample
  /\ objects[1].value = ViewC
  /\ objects[3].value = ViewA
  /\ lastOp.op = "get"
  /\ lastOp.path = <<PackageQ>>
  /\ collectObjects(tree.nodes, lastOp.returned) = {Ref(ViewA), Ref(ViewC)}

(* C18: on a diagram without objects buildPackageTree does not fail and   *)
(* returns a root package without children, which collects no object.     *)
C18_EmptyDiagramTree ==
  (lastOp.op = "buildPackageTree" /\ Len(objects) = 0) =>
    /\ lastOp.threw = ""
    /\ tree.exists
    /\ tree.nodes[<<>>] = <<>>
    /\ collectObjects(tree.nodes, tree.root) = {}

----------------------------------------------------------------------------
(* Diagram.fuse *)

NamesOf(table) == {table[i].key : i \in 1..Len(table)}

(* C20: a fuse step leaves the diagram with exactly the names of both     *)
(* diagrams, never reports a duplicate object, and appends the other      *)
(* diagram's relations, in their order, to the relation list.             *)
C20_FuseIsUnion ==
  [][\A other \in OtherDiagrams :
       Fuse(other) =>
         /\ NamesOf(objects') = NamesOf(objects) \cup NamesOf(other.objects)
         /\ lastOp'.threw # DuplicateError
         /\ relations' = relations \o other.relations]_vars

----------------------------------------------------------------------------
(* The types of attributes: Type.collectNames, and inferAssociations on   *)
(* a class whose attributes have these types                              *)

TypeInt == <<"i", "n", "t">>

(* the types the GraphQL parser builds, nested up to depth n *)
RECURSIVE TypePool(_)
TypePool(n) ==
  IF n = 0
    THEN {NamedType(NameX), NamedType(NameB), PrimitiveType(TypeInt), VoidType}
    ELSE LET inner == TypePool(n - 1)
         IN TypePool(0) \cup {ListType(t) : t \in inner}
              \cup {SetType(t) : t \in inner}
              \cup {OptionalType(t) : t \in inner}

(* the raw source texts the Java parser keeps: B, B[], a.B, int, M<B,B>, *)
(* M<B, B> and M<int, B>                                                  *)
SourceTypes ==
  { SourceType(NameB),
    SourceType(<<"B", "[", "]">>),
    SourceType(<<"a", ".", "B">>),
    SourceType(TypeInt),
    SourceType(<<"M", "<", "B", ",", "B", ">">>),
    SourceType(<<"M", "<", "B", ",", " ", "B", ">">>),
    SourceType(<<"M", "<">> \o TypeInt \o <<",", " ", "B", ">">>) }

SecondAttributes ==
  { [Attribute(RoleY, type) EXCEPT !.doc = doc] :
      type \in {NamedType(NameB), SourceType(<<"M", "<", "B", ",", "B", ">">>)},
      doc \in {<<>>, <<NoAssocTag>>} }

TypeAttributeLists ==
  LET first == {Attribute(RoleX, type) :
                  type \in TypePool(MaxTypeDepth) \cup SourceTypes}
  IN {<<a>> : a \in first} \cup {<<a, b>> : a \in first, b \in SecondAttributes}

TypeDiagrams ==
  { <<Entry([ClassObject(1, NameA) EXCEPT !.attributes = attrs]),
      Entry(ClassObject(3, NameB))>> : attrs \in TypeAttributeLists }

InitTypes ==
  /\ objects \in TypeDiagrams
  /\ relations = <<>>
  /\ warnings = <<>>
  /\ nextId = 100
  /\ fuseCount = 0
  /\ lastOp = Op("new", <<>>, "")
  /\ pc = "infer"
  /\ build = NoBuild
  /\ view = NoView
  /\ plan = NoPlan
  /\ tree = NoTree

(* attribute.type.collectNames() on the i-th attribute of the first object *)
CollectNames(i) ==
  /\ pc = "infer"
  /\ i \in 1..Len(objects[1].value.attributes)
  /\ LET type == objects[1].value.attributes[i].type
     IN lastOp' = [op |-> "collectNames", name |-> <<>>, threw |-> "",
                   type |-> type, returned |-> collectNames(type)]
  /\ UNCHANGED <<objects, relations, warnings, nextId, fuseCount, pc, build,
                 view, plan, tree>>

NextTypes ==
  \/ \E i \in 1..2 : CollectNames(i)
  \/ \E config \in InferConfigs : InferAssociations(config)

SpecTypes == InitTypes /\ [][NextTypes]_vars

(* the type left when every List, Set and Optional wrapper is taken off *)
RECURSIVE Innermost(_)
Innermost(type) ==
  IF type.type \in {"ListType", "SetType", "OptionalType"}
    THEN Innermost(type.item) ELSE type

(* C21: collectNames of a parsed type is the name of the Named type that  *)
(* is left when all List, Set and Optional wrappers are removed, and      *)
(* nothing when a Primitive or Void is left.                              *)
C21_NominalNames ==
  (lastOp.op = "collectNames" /\ Innermost(lastOp.type).type # "SourceType") =>
    lastOp.returned =
      IF Innermost(lastOp.type).type = "NamedType"
        THEN <<Innermost(lastOp.type).name>> ELSE <<>>

C21_Witness ==
  /\ lastOp.op = "collectNames"
  /\ lastOp.type = OptionalType(ListType(NamedType(NameX)))
  /\ lastOp.returned = <<NameX>>

Returned == {lastOp.returned[k] : k \in 1..Len(lastOp.returned)}

SpacedMap == SourceType(<<"M", "<">> \o TypeInt \o <<",", " ", "B", ">">>)

(* C22: collectNames of the source text M<int, B> contains the name B    *)
(* itself, and an attribute of that type gets class A an inferred        *)
(* association with the registered class B.                               *)
C22_SourceTextNames ==
  /\ (lastOp.op = "collectNames" /\ lastOp.type = SpacedMap) =>
       NameB \in Returned
  /\ (InferDone /\ objects[1].value.attributes = <<Attribute(RoleX, SpacedMap)>>) =>
       \E i \in 1..Len(relations) :
         relations[i].a = Ref(objects[1].value) /\ relations[i].b = Ref(objects[2].value)

----------------------------------------------------------------------------
(* The frame of resolveObjects *)

IsRealObject(e) == e.cls \notin {"UnresolvedObject", "String", "Undefined"}

SameButEndpoints(before, after) ==
  [after EXCEPT !.a = before.a, !.b = before.b] = before

ResolveFrame ==
  lastOp'.op \in ResolveOps =>
    /\ objects' = objects
    /\ Len(relations') = Len(relations)
    /\ \A i \in 1..Len(relations) :
         /\ SameButEndpoints(relations[i], relations'[i])
         /\ ~IsUnresolved(relations[i].a) => relations'[i].a = relations[i].a
         /\ ~IsUnresolved(relations[i].b) => relations'[i].b = relations[i].b

RealStaysReal ==
  \A i \in 1..Len(relations) :
    /\ Len(relations') >= i
    /\ IsRealObject(relations[i].a) => relations'[i].a = relations[i].a
    /\ IsRealObject(relations[i].b) => relations'[i].b = relations[i].b

----------------------------------------------------------------------------
(* The members of fused objects *)

MemberFields == {"attributes", "constructors", "methods", "constants"}

MembersAppended(before, other, after) ==
  \A field \in MemberFields \cap DOMAIN before :
    after[field] = before[field] \o other[field]

SameKindFused(other, kinds) ==
  \A i \in 1..Len(objects) : \A j \in 1..Len(other.objects) :
    (/\ objects[i].key = other.objects[j].key
     /\ objects[i].value.cls = other.objects[j].value.cls
     /\ objects[i].value.cls \in kinds) =>
      MembersAppended(objects[i].value, other.objects[j].value,
                      getObject(objects', objects[i].key))

(* C24: after a fuse step an object that both diagrams held under one    *)
(* name, with the same kind, has its former members followed by the      *)
(* other object's members, one list element per member.                  *)
C24_FuseAppendsMembers ==
  [][\A other \in OtherDiagrams :
       Fuse(other) =>
         SameKindFused(other, {"ClassObject", "EnumObject", "InterfaceObject"})]_vars

C24_ClassesOnly ==
  [][\A other \in OtherDiagrams :
       Fuse(other) => SameKindFused(other, {"ClassObject", "EnumObject"})]_vars

----------------------------------------------------------------------------
(* The endpoints of the relations of a fused diagram *)

IsRegistered(objs, e) ==
  /\ e.cls # "String"
  /\ hasObject(objs, e.name)
  /\ Ref(getObject(objs, e.name)) = e

EndpointsRegistered(objs, rels) ==
  \A i \in 1..Len(rels) :
    /\ IsUnresolved(rels[i].a) \/ IsRegistered(objs, rels[i].a)
    /\ IsUnresolved(rels[i].b) \/ IsRegistered(objs, rels[i].b)

(* the relations D.viewAll().planRender() selects *)
ViewAllPlan(objs, rels) ==
  planRender(NewView(0, RegisteredRefs(objs)), NoTree, rels).relations

FusedRelationsSelected ==
  LET selected == ViewAllPlan(objects', relations')
  IN \A i \in (Len(relations) + 1)..Len(relations') :
       (~IsUnresolved(relations'[i].a) /\ ~IsUnresolved(relations'[i].b)) =>
         \E k \in 1..Len(selected) : selected[k] = i

(* C25: when the real endpoints of both diagrams were their diagrams'    *)
(* registered objects, after a fuse step every real endpoint is the      *)
(* object the fused diagram holds under that name, and the relations     *)
(* taken over with two real endpoints are selected by viewAll's plan.    *)
C25_FusedEndpointsRegistered ==
  [][\A other \in OtherDiagrams :
       (/\ Fuse(other)
        /\ lastOp'.threw = ""
        /\ EndpointsRegistered(objects, relations)
        /\ EndpointsRegistered(other.objects, other.relations)) =>
         /\ EndpointsRegistered(objects', relations')
         /\ FusedRelationsSelected]_vars

----------------------------------------------------------------------------
(* The leaves of the package tree *)

(* C26: on a diagram with at least one object buildPackageTree does not  *)
(* fail and the root of the tree collects exactly the objects of the     *)
(* diagram's table.                                                      *)
C26_TreeHoldsEveryObject ==
  (lastOp.op = "buildPackageTree" /\ Len(objects) >= 1) =>
    /\ lastOp.threw = ""
    /\ tree.exists
    /\ collectObjects(tree.nodes, tree.root) = RegisteredRefs(objects)

(* the same, for tables where no object is named like a package segment  *)
(* of another object                                                     *)
C26_WithoutNameClash ==
  (/\ lastOp.op = "buildPackageTree"
   /\ Len(objects) >= 1
   /\ \A i, j \in 1..Len(objects) :
        \A k \in 1..Len(objects[j].value.package) :
          objects[j].value.package[k] # objects[i].key) =>
    /\ lastOp.threw = ""
    /\ tree.exists
    /\ collectObjects(tree.nodes, tree.root) = RegisteredRefs(objects)

----------------------------------------------------------------------------
(* The adjacent objects of a plan *)

AdjacentOutside ==
  \A k \in 1..Len(plan.adjacent) : plan.adjacent[k] \notin RenderedNow

(* C27: in a plan no object is listed in adjacent twice, and no rendered *)
(* object is listed in adjacent.                                         *)
C27_AdjacentIsSet ==
  PlanIsFresh =>
    /\ \A j, k \in 1..Len(plan.adjacent) :
         (IsRealObject(plan.adjacent[j]) /\ plan.adjacent[j] = plan.adjacent[k])
           => j = k
    /\ AdjacentOutside

C27_AdjacentNotRendered == PlanIsFresh => AdjacentOutside

----------------------------------------------------------------------------
(* The endpoints of the relations inferAssociations adds *)

(* C28: after inferAssociations both endpoints of every relation it      *)
(* added are objects registered in the diagram's table.                  *)
C28_AddedEndpointsRegistered ==
  InferDone =>
    \A i \in 1..Len(relations) :
      /\ relations[i].a \in RegisteredRefs(objects)
      /\ relations[i].b \in RegisteredRefs(objects)

(* the @assoc tags inferAssociations reads on an object: 0 for the tag of *)
(* the object itself, j for the tag of its j-th attribute                 *)
TagsRead(o) ==
  (IF HasAttribute(o.doc, AtAssoc) THEN {0} ELSE {}) \cup
  (IF Inferring(o) THEN AssocTagged(o) ELSE {})

FinalToken(o, t) ==
  LET doc == IF t = 0 THEN o.doc ELSE o.attributes[t].doc
      params == findAttribute(doc, AtAssoc).params
  IN params[Len(params)]

UnknownFinalTokens(o) ==
  {t \in TagsRead(o) : FinalToken(o, t) \notin RegisteredNames}

(* C28 as amended: after inferAssociations every relation it added starts *)
(* at a registered object; its endpoint B is a registered object, except  *)
(* that each @assoc tag whose final token is not a registered name gives  *)
(* one relation whose endpoint B is undefined.                            *)
C28_RegisteredOrUndefined ==
  InferDone =>
    /\ \A i \in 1..Len(relations) :
         /\ relations[i].a \in RegisteredRefs(objects)
         /\ relations[i].b \in RegisteredRefs(objects) \cup {UndefinedValue}
    /\ \A i \in 1..Len(objects) :
         LET o == objects[i].value
             from == FromObject(relations, o, 1)
         IN Cardinality({k \in 1..Len(from) : from[k].b = UndefinedValue})
              = Cardinality(UnknownFinalTokens(o))

C28_Witness ==
  /\ InferDone
  /\ UnknownFinalTokens(objects[1].value) = {0}
  /\ Len(relations) = 2
  /\ relations[1].b = UndefinedValue
  /\ relations[2].b = Ref(objects[2].value)

----------------------------------------------------------------------------
(* The frame of inferAssociations *)

Appended == SubSeq(relations', Len(relations) + 1, Len(relations'))

(* C29: inferAssociations leaves the object table, with every attribute  *)
(* list and doc comment, as it was and keeps the former relations as a   *)
(* prefix of the list; what it appends are Associative relations, one    *)
(* per role of each class: every object is visited once.                 *)
C29_InferOnlyAppends ==
  [][lastOp'.op = "inferAssociations" =>
       /\ objects' = objects
       /\ Len(relations') >= Len(relations)
       /\ SubSeq(relations', 1, Len(relations)) = relations
       /\ \A k \in 1..Len(Appended) : Appended[k].kind = "Associative"
       /\ \A i \in 1..Len(objects) :
            LET o == objects[i].value
            IN Len(FromObject(Appended, o, 1)) =
                 IF IsClassObject(o) THEN Cardinality(RolePairs(o)) ELSE 0]_vars

C29_Witness ==
  /\ lastOp.op = "inferAssociations"
  /\ Len(objects) = 2
  /\ Len(relations) = 2
  /\ relations[1].kind = "Inheritance"
  /\ relations[2].kind = "Associative"

----------------------------------------------------------------------------
(* Roles per attribute and target *)

RelationsTo(o, name) ==
  LET from == FromObject(relations, o, 1)
  IN {k \in 1..Len(from) : from[k].b = Ref(getObject(objects, name))}

(* the untagged attributes whose type names the target *)
NamingAttributes(o, name) ==
  {j \in Untagged(o) : name \in TypeNames(o.attributes[j].type)}

(* C30: an attribute gives at most one role per target, however often    *)
(* its type mentions the target: without merge the relations from a     *)
(* class to a target are as many as its untagged attributes whose type  *)
(* names the target, with merge there is one relation per target with   *)
(* at least one such attribute, labelled with each attribute once.      *)
C30_OneRolePerAttribute ==
  InferDone =>
    \A i \in 1..Len(objects) : \A name \in RegisteredNames :
      LET o == objects[i].value
          from == FromObject(relations, o, 1)
      IN IsClassObject(o) =>
           LET naming == NamingAttributes(o, name)
               roles == RolesFor(o, name, 1)
           IN /\ Len(roles) = Cardinality(naming)
              /\ Len(roles) <= Len(o.attributes)
              /\ IF lastOp.config.merge
                   THEN /\ Cardinality(RelationsTo(o, name)) =
                             IF naming = {} THEN 0 ELSE 1
                        /\ \A k \in RelationsTo(o, name) :
                             from[k].roleB = RoleLabel(roles, lastOp.config)
                   ELSE /\ Cardinality(RelationsTo(o, name)) = Cardinality(naming)
                        /\ \A j \in naming :
                             Cardinality({k \in RelationsTo(o, name) :
                                            from[k].roleB = o.attributes[j].name}) = 1

C30_Witness ==
  /\ InferDone
  /\ objects[1].value.attributes =
       <<Attribute(RoleX, SourceType(<<"M", "<", "B", ",", "B", ">">>)),
         Attribute(RoleY, NamedType(NameB))>>
  /\ ~lastOp.config.merge
  /\ Len(relations) = 2
  /\ relations[1].roleB = RoleX
  /\ relations[2].roleB = RoleY

====
